---- MODULE Spec2Model ----
(***************************************************************************)
(* Model of the airline-discount-ml core:                                  *)
(*   - models/passenger_profiler.py  build_features (feature normalizer)   *)
(*   - models/discount_predictor.py  DiscountPredictor (fit / predict /    *)
(*                                   save / load)                          *)
(*                                                                         *)
(* Numbers are exact rationals n/d (an abstraction of float64 that keeps   *)
(* the cases the code distinguishes: missing, infinite, zero, sign).       *)
(***************************************************************************)
EXTENDS Integers, Sequences, FiniteSets, TLC

VARIABLES
    df,      \* build_features: the input handed to the call
    bf,      \* build_features: what the call did (outcome, message, returned table)
    preds,   \* the DiscountPredictor instances: _fitted and the pipeline object held
    heap,    \* the pipeline objects: the state of each by identity
    fs,      \* the file system: directories and artifact files
    last,    \* the latest predictor call: method, arguments, exception, return value
    db,      \* the Database object and its SQLite file
    srv      \* the MCP server: the files it can reach and its latest tools/call

(***************************************************************************)
(* Cells of a table.  k is the kind of value:                              *)
(*   "num"  a finite number n/d        "str"  a string s                   *)
(*   "NaN"  float nan                  "NA"   pandas.NA                    *)
(*   "inf" / "-inf"  float infinities                                      *)
(***************************************************************************)
RECURSIVE GCD(_, _)
GCD(a, b) == IF b = 0 THEN a ELSE GCD(b, a % b)

Abs(a) == IF a < 0 THEN -a ELSE a

Cell(kind, n, d, s) == [k |-> kind, n |-> n, d |-> d, s |-> s]

\* the finite number n/d in lowest terms, d > 0
Num(n, d) ==
    LET g == GCD(Abs(n), Abs(d))
        sg == IF d < 0 THEN -1 ELSE 1
    IN  Cell("num", sg * (n \div g), sg * (d \div g), "")

Whole(n) == Num(n, 1)
Str(s) == Cell("str", 0, 1, s)
NA     == Cell("NA", 0, 1, "")
NaN    == Cell("NaN", 0, 1, "")
PosInf == Cell("inf", 0, 1, "")
NegInf == Cell("-inf", 0, 1, "")

\* pandas.isna without use_inf_as_na: NaN and NA are missing, infinities are not
IsMissing(c) == c.k \in {"NaN", "NA"}
IsInfinite(c) == c.k \in {"inf", "-inf"}

(***************************************************************************)
(* Tables (pandas.DataFrame) and series.  kind "DataFrame" is a table;     *)
(* any other kind is a value that is not a table.  columns is the ordered  *)
(* column list, index the ordered row labels, data maps a column name to   *)
(* its cells, one per row.                                                 *)
(***************************************************************************)
Table(cols, idx, dat) == [kind |-> "DataFrame", columns |-> cols, index |-> idx, data |-> dat]

NoData == [c \in {} |-> <<>>]

NotATable == [kind |-> "list", columns |-> <<>>, index |-> <<>>, data |-> NoData]

Range(s) == {s[i] : i \in 1..Len(s)}

ColumnSet(t) == Range(t.columns)

\* DataFrame.empty: any axis of length 0
IsEmpty(t) == Len(t.index) = 0 \/ Len(t.columns) = 0

\* out[name] = series (same index): a new column is appended, an old one replaced
SetColumn(t, name, cells) ==
    [t EXCEPT !.columns = IF name \in Range(t.columns) THEN t.columns
                          ELSE Append(t.columns, name),
              !.data = (name :> cells) @@ t.data]

\* out[name] = scalar: the scalar in every row
Broadcast(t, c) == [i \in 1..Len(t.index) |-> c]

(***************************************************************************)
(* Element-wise arithmetic of pandas on numeric cells.                     *)
(***************************************************************************)
\* cell * (n/d) for a positive finite constant n/d
MulConst(c, n, d) ==
    CASE c.k = "num" -> Num(c.n * n, c.d * d)
      [] OTHER -> c

\* a / b (true division): NA propagates, then NaN; a finite number over zero is
\* +-inf, zero over zero is NaN.  The quotient is stored as computed: option
\* mode.use_inf_as_na only changes what isna() reports while the block runs.
TrueDiv(a, b) ==
    CASE a.k = "NA" \/ b.k = "NA" -> NA
      [] a.k = "NaN" \/ b.k = "NaN" -> NaN
      [] a.k = "num" /\ b.k = "num" /\ b.n = 0 ->
            IF a.n > 0 THEN PosInf ELSE IF a.n < 0 THEN NegInf ELSE NaN
      [] a.k = "num" /\ b.k = "num" -> Num(a.n * b.d, a.d * b.n)
      [] a.k = "num" /\ IsInfinite(b) -> Whole(0)
      [] IsInfinite(a) /\ b.k = "num" ->
            IF (a.k = "inf") = (b.n >= 0) THEN PosInf ELSE NegInf
      [] OTHER -> NaN

SeriesMulConst(cells, n, d) == [i \in 1..Len(cells) |-> MulConst(cells[i], n, d)]

SeriesTrueDiv(xs, ys) == [i \in 1..Len(xs) |-> TrueDiv(xs[i], ys[i])]

(***************************************************************************)
(* models/passenger_profiler.py                                            *)
(***************************************************************************)
\* a variant of the output schema without route_id
REQUIRED_OUTPUT_COLUMNS_NoRoute ==
    <<"distance_km", "history_trips", "avg_spend", "origin", "destination">>

REQUIRED_OUTPUT_COLUMNS ==
    <<"distance_km", "history_trips", "avg_spend", "route_id", "origin", "destination">>

\* 1.60934 = KmPerMileNum / KmPerMileDen
KmPerMileNum == 160934
KmPerMileDen == 100000

\* a variant that lets the miles column win over distance_km
DistanceKmField_MilesFirst(d, out) ==
    IF "distance" \in ColumnSet(d)
    THEN SetColumn(out, "distance_km",
                   SeriesMulConst(d.data["distance"], KmPerMileNum, KmPerMileDen))
    ELSE IF "distance_km" \in ColumnSet(d)
         THEN SetColumn(out, "distance_km", d.data["distance_km"])
         ELSE SetColumn(out, "distance_km", Broadcast(out, NA))

\* distance_km: prefer distance_km, else convert miles if 'distance' present
DistanceKmField(d, out) ==
    IF "distance_km" \in ColumnSet(d) THEN SetColumn(out, "distance_km", d.data["distance_km"])
    ELSE IF "distance" \in ColumnSet(d)
         THEN SetColumn(out, "distance_km",
                        SeriesMulConst(d.data["distance"], KmPerMileNum, KmPerMileDen))
         ELSE SetColumn(out, "distance_km", Broadcast(out, NA))

\* history_trips: prefer provided, else derive from trips_count
HistoryTripsField(d, out) ==
    IF "history_trips" \in ColumnSet(d)
    THEN SetColumn(out, "history_trips", d.data["history_trips"])
    ELSE IF "trips_count" \in ColumnSet(d)
         THEN SetColumn(out, "history_trips", d.data["trips_count"])
         ELSE SetColumn(out, "history_trips", Broadcast(out, NA))

\* a variant that divides by the raw trips_count column when there is one
AvgSpendField_RawTrips(d, out) ==
    IF "avg_spend" \in ColumnSet(d) THEN SetColumn(out, "avg_spend", d.data["avg_spend"])
    ELSE IF "total_spend" \in ColumnSet(d) /\ "history_trips" \in ColumnSet(out)
         THEN SetColumn(out, "avg_spend",
                        SeriesTrueDiv(d.data["total_spend"],
                                      IF "trips_count" \in ColumnSet(d)
                                      THEN d.data["trips_count"]
                                      ELSE out.data["history_trips"]))
         ELSE SetColumn(out, "avg_spend", Broadcast(out, NA))

\* a variant that takes a given avg_spend for a total and divides it as well
AvgSpendField_DividesGiven(d, out) ==
    IF "avg_spend" \in ColumnSet(d)
    THEN SetColumn(out, "avg_spend",
                   SeriesTrueDiv(d.data["avg_spend"], out.data["history_trips"]))
    ELSE IF "total_spend" \in ColumnSet(d) /\ "history_trips" \in ColumnSet(out)
         THEN SetColumn(out, "avg_spend",
                        SeriesTrueDiv(d.data["total_spend"], out.data["history_trips"]))
         ELSE SetColumn(out, "avg_spend", Broadcast(out, NA))

\* avg_spend: prefer provided, else derive from total_spend / history_trips
AvgSpendField(d, out) ==
    IF "avg_spend" \in ColumnSet(d) THEN SetColumn(out, "avg_spend", d.data["avg_spend"])
    ELSE IF "total_spend" \in ColumnSet(d) /\ "history_trips" \in ColumnSet(out)
         THEN SetColumn(out, "avg_spend",
                        SeriesTrueDiv(d.data["total_spend"], out.data["history_trips"]))
         ELSE SetColumn(out, "avg_spend", Broadcast(out, NA))

\* a variant that leaves a field out when it has no source column
CopyOrUnknown_Omit(d, out, name) ==
    IF name \in ColumnSet(d) THEN SetColumn(out, name, d.data[name]) ELSE out

\* out[name] = df[name] if name in df.columns else pd.NA
CopyOrUnknown(d, out, name) ==
    IF name \in ColumnSet(d) THEN SetColumn(out, name, d.data[name])
    ELSE SetColumn(out, name, Broadcast(out, NA))

\* out[REQUIRED_OUTPUT_COLUMNS]: the listed columns in the listed order; a listed
\* column that out lacks is a KeyError
HasAll(t, cols) == Range(cols) \subseteq ColumnSet(t)

SelectColumns(t, cols) ==
    Table(cols, t.index, [c \in Range(cols) |-> t.data[c]])

BfResult(outcome, msg, out) == [called |-> TRUE, outcome |-> outcome, msg |-> msg, out |-> out]

\* a variant that tests len(df) == 0 in place of df.empty
build_features_RowsOnly(d) ==
    IF d.kind # "DataFrame" \/ Len(d.index) = 0
    THEN BfResult("ValueError", "Input must be a non-empty pandas DataFrame.", NotATable)
    ELSE LET o0 == Table(<<>>, d.index, NoData)
             o1 == DistanceKmField(d, o0)
             o2 == HistoryTripsField(d, o1)
             o3 == AvgSpendField(d, o2)
             o4 == CopyOrUnknown(d, o3, "route_id")
             o5 == CopyOrUnknown(d, o4, "origin")
             o6 == CopyOrUnknown(d, o5, "destination")
         IN  IF HasAll(o6, REQUIRED_OUTPUT_COLUMNS)
             THEN BfResult("ok", "", SelectColumns(o6, REQUIRED_OUTPUT_COLUMNS))
             ELSE BfResult("KeyError", "not in index", NotATable)

build_features(d) ==
    IF d.kind # "DataFrame" \/ IsEmpty(d)
    THEN BfResult("ValueError", "Input must be a non-empty pandas DataFrame.", NotATable)
    ELSE LET o0 == Table(<<>>, d.index, NoData)
             o1 == DistanceKmField(d, o0)
             o2 == HistoryTripsField(d, o1)
             o3 == AvgSpendField(d, o2)
             o4 == CopyOrUnknown(d, o3, "route_id")
             o5 == CopyOrUnknown(d, o4, "origin")
             o6 == CopyOrUnknown(d, o5, "destination")
         IN  IF HasAll(o6, REQUIRED_OUTPUT_COLUMNS)
             THEN BfResult("ok", "", SelectColumns(o6, REQUIRED_OUTPUT_COLUMNS))
             ELSE BfResult("KeyError", "not in index", NotATable)

(***************************************************************************)
(* models/discount_predictor.py                                            *)
(***************************************************************************)
REQUIRED_NUMERIC == <<"distance_km", "history_trips", "avg_spend">>
REQUIRED_CATEGORICAL == <<"route_id", "origin", "destination">>
REQUIRED_FEATURES == REQUIRED_NUMERIC \o REQUIRED_CATEGORICAL

\* a target vector (pandas.Series); any other kind is not a Series
Series(idx, vals, name) == [kind |-> "Series", index |-> idx, values |-> vals, name |-> name]

NotASeries == [kind |-> "list", index |-> <<>>, values |-> <<>>, name |-> ""]

\* what a call raised: exc = "" when it returned.  names carries the set a
\* message formats with {missing}
Raised(exc, text, names) == [exc |-> exc, text |-> text, names |-> names]

NoError == Raised("", "", {})

\* a variant whose message lists every required column, missing or not
_validate_X_ListsAll(X) ==
    IF X.kind # "DataFrame" THEN Raised("ValueError", "X must be a pandas DataFrame.", {})
    ELSE IF IsEmpty(X) THEN Raised("ValueError", "X is empty.", {})
    ELSE IF Range(REQUIRED_FEATURES) \ ColumnSet(X) # {}
         THEN Raised("ValueError", "Missing required columns: ", Range(REQUIRED_FEATURES))
         ELSE NoError

_validate_X(X) ==
    IF X.kind # "DataFrame" THEN Raised("ValueError", "X must be a pandas DataFrame.", {})
    ELSE IF IsEmpty(X) THEN Raised("ValueError", "X is empty.", {})
    ELSE LET missing == Range(REQUIRED_FEATURES) \ ColumnSet(X)
         IN  IF missing # {}
             THEN Raised("ValueError", "Missing required columns: ", missing)
             ELSE NoError

_validate_y(y) ==
    IF y.kind # "Series" THEN Raised("ValueError", "y must be a pandas Series.", {})
    ELSE IF Len(y.index) = 0 THEN Raised("ValueError", "y is empty.", {})
    ELSE NoError

(***************************************************************************)
(* The sklearn pipeline behind self._pipeline.  Its learned parameters are *)
(* functions of the data each stage was fitted on, so a stage's state is   *)
(* that data: prep (imputer statistics, scaler, one-hot vocabularies) is   *)
(* the rows of the six required columns it was fitted on (remainder        *)
(* "drop"), model (LinearRegression) the rows and aligned targets it was   *)
(* fitted on.                                                              *)
(***************************************************************************)
Stage(fitted, rows, targets) == [fitted |-> fitted, rows |-> rows, targets |-> targets]

UnfittedStage == Stage(FALSE, <<>>, <<>>)

PipelineState(prep, model) == [prep |-> prep, model |-> model]

\* Pipeline(steps=[("prep", ColumnTransformer(...)), ("model", LinearRegression())])
NewPipeline == PipelineState(UnfittedStage, UnfittedStage)

\* a variant that hands every column on (remainder "passthrough")
FeatureRows_Passthrough(X) ==
    [i \in 1..Len(X.index) |-> [c \in ColumnSet(X) |-> X.data[c][i]]]

\* the rows of X restricted to the required columns, in row order
FeatureRows(X) ==
    [i \in 1..Len(X.index) |-> [c \in Range(REQUIRED_FEATURES) |-> X.data[c][i]]]

\* SimpleImputer and OneHotEncoder validation: a numeric column holds finite
\* numbers or NaN, a categorical column categories (strings, or numbers as
\* the route_id of the training query) or NaN
CellAccepted(c, v) ==
    IF c \in Range(REQUIRED_NUMERIC) THEN v.k \in {"num", "NaN"}
    ELSE v.k \in {"str", "num", "NaN"}

RowsAccepted(rows) ==
    \A i \in 1..Len(rows) : \A c \in Range(REQUIRED_FEATURES) : CellAccepted(c, rows[i][c])

Present(rows, c) == {rows[i][c] : i \in 1..Len(rows)} \ {NaN}

\* width of the transformed matrix: a numeric column with a value learned, and
\* one indicator per category seen (a column that is all missing is dropped)
NFeatures(rows) ==
    Cardinality({c \in Range(REQUIRED_NUMERIC) : Present(rows, c) # {}})
    + Cardinality({<<c, v>> \in Range(REQUIRED_CATEGORICAL) \X
                      UNION {Present(rows, c) : c \in Range(REQUIRED_CATEGORICAL)} :
                      v \in Present(rows, c)})

\* y.loc[X.index]: the target of each feature-row label, in feature-row order;
\* a label the targets lack is a KeyError
Position(idx, label) == CHOOSE k \in 1..Len(idx) : idx[k] = label

CanAlign(X, y) == Range(X.index) \subseteq Range(y.index)

\* a variant that pairs rows and targets by position (y as given, no .loc)
AlignTargets_Positional(X, y) == [i \in 1..Len(X.index) |-> y.values[i]]

AlignTargets(X, y) == [i \in 1..Len(X.index) |-> y.values[Position(y.index, X.index[i])]]

TargetsAccepted(ts) == \A i \in 1..Len(ts) : ts[i].k = "num"

\* ColumnTransformer selects its columns by name before anything else
ColumnsFound(X) == Range(REQUIRED_FEATURES) \subseteq ColumnSet(X)

ColumnNotFound ==
    Raised("ValueError", "A given column is not a column of the dataframe", {})

RejectedX == Raised("ValueError", "Input X contains infinity or non-numeric data", {})

\* self._pipeline.fit(X, y): prep.fit_transform(X) first, which rejects the
\* input before it learns anything, or replaces prep's parameters; then
\* model.fit(Xt, y), which rejects non-finite targets, prep already refitted
PipelineFit(pipe, X, ts) ==
    IF ~ColumnsFound(X) THEN [err |-> ColumnNotFound, pipe |-> pipe]
    ELSE IF ~RowsAccepted(FeatureRows(X)) THEN [err |-> RejectedX, pipe |-> pipe]
    ELSE IF ~TargetsAccepted(ts)
         THEN [err |-> Raised("ValueError", "Input y contains NaN or infinity", {}),
               pipe |-> PipelineState(Stage(TRUE, FeatureRows(X), <<>>), pipe.model)]
    ELSE [err |-> NoError,
          pipe |-> PipelineState(Stage(TRUE, FeatureRows(X), <<>>),
                                 Stage(TRUE, FeatureRows(X), ts))]

\* rational arithmetic on finite cells
AddNum(a, b) == Num(a.n * b.d + b.n * a.d, a.d * b.d)

RECURSIVE SumCells(_)
SumCells(cs) == IF Len(cs) = 0 THEN Whole(0) ELSE AddNum(cs[1], SumCells(Tail(cs)))

Mean(cs) == LET t == SumCells(cs) IN Num(t.n, t.d * Len(cs))

\* one predicted value.  When every training row is the same the centred
\* design matrix is zero, the coefficients are zero and the prediction is the
\* mean target; otherwise the value is the least-squares prediction for the
\* row under these parameters, kept as the term that determines it.
Predicted(value, term) == [value |-> value, term |-> term]

PredictRow(pipe, row) ==
    IF \A i \in 1..Len(pipe.model.rows) : pipe.model.rows[i] = pipe.model.rows[1]
    THEN Predicted(Mean(pipe.model.targets), <<>>)
    ELSE Predicted(Cell("lstsq", 0, 1, ""),
                   <<pipe.prep.rows, pipe.model.rows, pipe.model.targets, row>>)

\* self._pipeline.predict(X): prep.transform(X) rejects what the imputers
\* reject; the model needs the width it was fitted with
PipelinePredict(pipe, X) ==
    IF ~pipe.prep.fitted \/ ~pipe.model.fitted
    THEN [err |-> Raised("NotFittedError", "This instance is not fitted yet", {}),
          preds |-> <<>>]
    ELSE IF ~ColumnsFound(X) THEN [err |-> ColumnNotFound, preds |-> <<>>]
    ELSE IF ~RowsAccepted(FeatureRows(X)) THEN [err |-> RejectedX, preds |-> <<>>]
    ELSE IF NFeatures(pipe.prep.rows) # NFeatures(pipe.model.rows)
         THEN [err |-> Raised("ValueError", "X has a different number of features", {}),
               preds |-> <<>>]
    ELSE [err |-> NoError,
          preds |-> [i \in 1..Len(X.index) |-> PredictRow(pipe, FeatureRows(X)[i])]]

(***************************************************************************)
(* The file system: directories and regular files by path (a sequence of   *)
(* components, <<>> the working directory), and the artifact joblib.dump   *)
(* writes: the dict {"pipeline": ..., "version": 1} as a snapshot of the   *)
(* object graph at the time of the call.                                   *)
(***************************************************************************)
Parent(path) == SubSeq(path, 1, Len(path) - 1)

Prefixes(path) == {SubSeq(path, 1, k) : k \in 0..Len(path)}

IsFile(f, path) == path \in DOMAIN f.files

IsDir(f, path) == path \in f.dirs

\* Path.mkdir(parents=True, exist_ok=True)
CanMkdir(f, dir) == \A q \in Prefixes(dir) : ~IsFile(f, q)

Mkdir(f, dir) == [f EXCEPT !.dirs = @ \cup Prefixes(dir)]

Artifact(pipe, version) == [format |-> "joblib", pipeline |-> pipe, version |-> version]

\* joblib.dump(value, path): create or overwrite the file
WriteFile(f, path, blob) == [f EXCEPT !.files = (path :> blob) @@ @]

\* a file of no bytes: nothing joblib can unpickle
EmptyFile == [format |-> "empty", pipeline |-> NewPipeline, version |-> 0]

\* a pickled dict {"pipeline": ...} that has no "version" key
Unversioned(pipe) == [format |-> "joblib", pipeline |-> pipe]

(***************************************************************************)
(* DiscountPredictor methods as functions of the instance (self), the     *)
(* state of the pipeline object it holds and the arguments.                *)
(***************************************************************************)
Instance(fitted, pipeline) == [fitted |-> fitted, pipeline |-> pipeline]

FitOutcome(err, fitted, pipe) == [err |-> err, fitted |-> fitted, pipe |-> pipe]

\* a variant that validates the targets before the features
fit_TargetsFirst(self, pipe, X, y) ==
    IF _validate_y(y).exc # "" THEN FitOutcome(_validate_y(y), self.fitted, pipe)
    ELSE IF _validate_X(X).exc # "" THEN FitOutcome(_validate_X(X), self.fitted, pipe)
    ELSE IF ~CanAlign(X, y)
         THEN FitOutcome(Raised("KeyError", "not in index", Range(X.index) \ Range(y.index)),
                         self.fitted, pipe)
    ELSE LET r == PipelineFit(pipe, X, AlignTargets(X, y))
         IN  IF r.err.exc # "" THEN FitOutcome(r.err, self.fitted, r.pipe)
             ELSE FitOutcome(NoError, TRUE, r.pipe)

\* a variant that lowers _fitted on entry and raises it again when the fit returns
fit_ResetsFlag(self, pipe, X, y) ==
    IF _validate_X(X).exc # "" THEN FitOutcome(_validate_X(X), FALSE, pipe)
    ELSE IF _validate_y(y).exc # "" THEN FitOutcome(_validate_y(y), FALSE, pipe)
    ELSE IF self.pipeline = 0
         THEN FitOutcome(Raised("RuntimeError", "Pipeline is not initialized.", {}), FALSE, pipe)
    ELSE IF ~CanAlign(X, y)
         THEN FitOutcome(Raised("KeyError", "not in index", Range(X.index) \ Range(y.index)),
                         FALSE, pipe)
    ELSE LET r == PipelineFit(pipe, X, AlignTargets(X, y))
         IN  IF r.err.exc # "" THEN FitOutcome(r.err, FALSE, r.pipe)
             ELSE FitOutcome(NoError, TRUE, r.pipe)

fit(self, pipe, X, y) ==
    IF _validate_X(X).exc # "" THEN FitOutcome(_validate_X(X), self.fitted, pipe)
    ELSE IF _validate_y(y).exc # "" THEN FitOutcome(_validate_y(y), self.fitted, pipe)
    ELSE IF self.pipeline = 0
         THEN FitOutcome(Raised("RuntimeError", "Pipeline is not initialized.", {}),
                         self.fitted, pipe)
    ELSE IF ~CanAlign(X, y)
         THEN FitOutcome(Raised("KeyError", "not in index", Range(X.index) \ Range(y.index)),
                         self.fitted, pipe)
    ELSE LET r == PipelineFit(pipe, X, AlignTargets(X, y))
         IN  IF r.err.exc # "" THEN FitOutcome(r.err, self.fitted, r.pipe)
             ELSE FitOutcome(NoError, TRUE, r.pipe)

\* training/train.py: train_model(model, data) is model.fit(data['features'],
\* data['labels']) and returns the model
train_model(self, pipe, data) == fit(self, pipe, data.features, data.labels)

PredictOutcome(err, ret) == [err |-> err, ret |-> ret]

\* a variant that validates the input before it looks at the trained flag
predict_ValidatesFirst(self, pipe, X) ==
    IF _validate_X(X).exc # "" THEN PredictOutcome(_validate_X(X), NotASeries)
    ELSE IF ~self.fitted \/ self.pipeline = 0
    THEN PredictOutcome(Raised("RuntimeError", "Model not fitted. Call fit() first.", {}),
                        NotASeries)
    ELSE LET r == PipelinePredict(pipe, X)
         IN  IF r.err.exc # "" THEN PredictOutcome(r.err, NotASeries)
             ELSE PredictOutcome(NoError, Series(X.index, r.preds, "discount_value"))

predict(self, pipe, X) ==
    IF ~self.fitted \/ self.pipeline = 0
    THEN PredictOutcome(Raised("RuntimeError", "Model not fitted. Call fit() first.", {}),
                        NotASeries)
    ELSE IF _validate_X(X).exc # "" THEN PredictOutcome(_validate_X(X), NotASeries)
    ELSE LET r == PipelinePredict(pipe, X)
         IN  IF r.err.exc # "" THEN PredictOutcome(r.err, NotASeries)
             ELSE PredictOutcome(NoError, Series(X.index, r.preds, "discount_value"))

SaveOutcome(err, f) == [err |-> err, fs |-> f]

\* a variant that creates the parent directories before it looks at the trained flag
save_MkdirFirst(self, pipe, f, path) ==
    IF ~CanMkdir(f, Parent(path))
    THEN SaveOutcome(Raised("FileExistsError", "", {}), f)
    ELSE IF ~self.fitted \/ self.pipeline = 0
    THEN SaveOutcome(Raised("RuntimeError", "Cannot save an unfitted model.", {}),
                     Mkdir(f, Parent(path)))
    ELSE IF IsDir(Mkdir(f, Parent(path)), path)
         THEN SaveOutcome(Raised("IsADirectoryError", "", {}), Mkdir(f, Parent(path)))
    ELSE SaveOutcome(NoError, WriteFile(Mkdir(f, Parent(path)), path, Artifact(pipe, 1)))

save(self, pipe, f, path) ==
    IF ~self.fitted \/ self.pipeline = 0
    THEN SaveOutcome(Raised("RuntimeError", "Cannot save an unfitted model.", {}), f)
    ELSE IF ~CanMkdir(f, Parent(path))
         THEN SaveOutcome(Raised(IF IsFile(f, Parent(path)) THEN "FileExistsError"
                                 ELSE "NotADirectoryError", "", {}), f)
    ELSE IF IsDir(Mkdir(f, Parent(path)), path)
         THEN SaveOutcome(Raised("IsADirectoryError", "", {}), Mkdir(f, Parent(path)))
    ELSE SaveOutcome(NoError, WriteFile(Mkdir(f, Parent(path)), path, Artifact(pipe, 1)))

LoadOutcome(err, obj, pipe) == [err |-> err, obj |-> obj, pipe |-> pipe]

\* a variant that keeps the regression stage of the fresh cls() instance
load_DropsModel(f, path, ref) ==
    IF IsDir(f, path) \/ ~IsFile(f, path)
    THEN LoadOutcome(Raised("FileNotFoundError", "", {}), Instance(FALSE, 0), NewPipeline)
    ELSE LoadOutcome(NoError, Instance(TRUE, ref),
                     PipelineState(f.files[path].pipeline.prep, UnfittedStage))

\* load(cls, path): joblib.load, then cls() with _pipeline replaced by the
\* deserialized blob["pipeline"] (a new object graph) and _fitted set.  ref is
\* the identity of that new pipeline object.  joblib.load opens the file (the
\* OSError of open() when there is none to open) and unpickles it (EOFError on
\* a file of no bytes); blob["version"] is not read.
load(f, path, ref) ==
    IF IsDir(f, path)
    THEN LoadOutcome(Raised("IsADirectoryError", "", {}), Instance(FALSE, 0), NewPipeline)
    ELSE IF ~CanMkdir(f, Parent(path))
         THEN LoadOutcome(Raised("NotADirectoryError", "", {}), Instance(FALSE, 0), NewPipeline)
    ELSE IF ~IsFile(f, path)
         THEN LoadOutcome(Raised("FileNotFoundError", "", {}), Instance(FALSE, 0), NewPipeline)
    ELSE IF f.files[path].format # "joblib"
         THEN LoadOutcome(Raised("EOFError", "", {}), Instance(FALSE, 0), NewPipeline)
    ELSE LoadOutcome(NoError, Instance(TRUE, ref), f.files[path].pipeline)

(***************************************************************************)
(* Inputs of build_features: every subset of the columns the function      *)
(* looks at plus one it ignores ("spend"), listed in an order that is not  *)
(* the output order, with 0..MaxRows rows and a non-default index.         *)
(***************************************************************************)
MaxRows == 2

InputColumnOrder ==
    <<"destination", "spend", "total_spend", "trips_count", "origin",
      "distance", "avg_spend", "route_id", "history_trips", "distance_km">>

\* history_trips, trips_count and total_spend of one row
Profile(ht, tc, ts) == [ht |-> ht, tc |-> tc, ts |-> ts]

RowProfiles ==
    { Profile(Whole(2), Whole(4), Whole(300)),
      Profile(Whole(0), Whole(0), Whole(300)),
      Profile(Whole(0), Whole(4), Whole(-300)),
      Profile(NaN, Whole(0), Whole(0)),
      Profile(Whole(2), Whole(4), NaN) }

SeqsUpTo(S, n) == UNION {[1..k -> S] : k \in 0..n}

IndexFor(n) == [i \in 1..n |-> 10 - 3 * i]

FilterSeq(s, S) == SelectSeq(s, LAMBDA x : x \in S)

InputCell(c, r, p) ==
    CASE c = "distance_km"   -> Whole(3000 + r)
      [] c = "distance"      -> IF r = 2 THEN NaN ELSE Whole(2150)
      [] c = "history_trips" -> p.ht
      [] c = "trips_count"   -> p.tc
      [] c = "avg_spend"     -> Whole(800 + r)
      [] c = "total_spend"   -> p.ts
      [] c = "spend"         -> Whole(5)
      [] c = "route_id"      -> IF r % 2 = 1 THEN Str("R1") ELSE Str("R2")
      [] c = "origin"        -> Str("NYC")
      [] OTHER               -> Str("LON")

MkInput(cs, ps) ==
    Table(FilterSeq(InputColumnOrder, cs), IndexFor(Len(ps)),
          [c \in cs |-> [r \in 1..Len(ps) |-> InputCell(c, r, ps[r])]])

\* the inputs with at most n rows
FeatureInputs(n) ==
    {NotATable} \cup
    {MkInput(cs, ps) : cs \in SUBSET Range(InputColumnOrder), ps \in SeqsUpTo(RowProfiles, n)}

BfNotCalled == [called |-> FALSE, outcome |-> "", msg |-> "", out |-> NotATable]

(***************************************************************************)
(* Inputs of the predictor.                                                *)
(***************************************************************************)
MaxInst == 2

XColumnOrder ==
    <<"extra", "destination", "origin", "route_id", "avg_spend", "history_trips", "distance_km">>

FeatureRow(dist, trips, spend, route, origin, dest) ==
    [c \in Range(REQUIRED_FEATURES) |->
        CASE c = "distance_km"   -> dist
          [] c = "history_trips" -> trips
          [] c = "avg_spend"     -> spend
          [] c = "route_id"      -> route
          [] c = "origin"        -> origin
          [] OTHER               -> dest]

RowA == FeatureRow(Whole(1000), Whole(2), Whole(100), Str("R1"), Str("NYC"), Str("LON"))
RowB == FeatureRow(Whole(2000), NaN, Whole(300), Str("R2"), NaN, Str("LON"))
RowD == FeatureRow(Whole(3000), Whole(5), Whole(250), Str("R9"), Str("SFO"), Str("TYO"))
\* a row as build_features leaves it after dividing a spend by zero trips
RowInf == FeatureRow(Whole(1500), Whole(0), PosInf, Str("R1"), Str("NYC"), Str("LON"))

MkX(cs, rows) ==
    Table(FilterSeq(XColumnOrder, cs), IndexFor(Len(rows)),
          [c \in cs |-> [r \in 1..Len(rows) |->
              IF c \in Range(REQUIRED_FEATURES) THEN rows[r][c] ELSE Whole(1)]])

SixColumns == Range(REQUIRED_FEATURES)

XAB == MkX(SixColumns, <<RowA, RowB>>)
XD == MkX(SixColumns, <<RowD>>)

\* targets for the labels of IndexFor(2) = <<7, 4>>, listed in another order
YPermuted == Series(<<4, 7>>, <<Whole(20), Whole(10)>>, "discount_value")
YOther == Series(<<7, 4>>, <<Whole(30), Whole(50)>>, "discount_value")
YExtraLabels == Series(<<1, 7, 4>>, <<Whole(5), Whole(15), Whole(25)>>, "discount_value")
YShort == Series(<<7>>, <<Whole(10)>>, "discount_value")
YWithNaN == Series(<<7, 4>>, <<Whole(10), NaN>>, "discount_value")
YEmpty == Series(<<>>, <<>>, "discount_value")

\* the training sets and prediction inputs of the lifecycle runs
LifecycleFits == { <<XD, YOther>>, <<XD, YPermuted>>, <<XAB, YPermuted>> }
LifecycleX == {XAB, XD}

ColumnChoices ==
    { SixColumns, SixColumns \cup {"extra"}, SixColumns \ {"avg_spend"},
      {"distance_km"}, {"extra"} }

ValidationX ==
    {NotATable, Table(<<>>, <<>>, NoData)} \cup
    {MkX(cs, rows) : cs \in ColumnChoices,
                     rows \in {<<>>, <<RowA, RowB>>, <<RowD>>, <<RowInf>>}}

ValidationY == {NotASeries, YEmpty, YPermuted, YOther, YExtraLabels, YShort, YWithNaN}

Paths == { <<"m.joblib">>, <<"models", "discount_predictor.pkl">>, <<"models">> }

(***************************************************************************)
(* The relational store (data/database.py over sqlite3).  A store is the   *)
(* rows of the three tables and sqlite_sequence, the AUTOINCREMENT counter *)
(* of each table (the largest id ever given out, which DELETE does not     *)
(* reset).  travel_history, a JSON object, is a function from its keys.    *)
(***************************************************************************)
TableNames == {"passengers", "routes", "discounts"}

\* the columns declared NOT NULL (id is filled in by AUTOINCREMENT)
NotNullColumns ==
    [t \in TableNames |->
        CASE t = "passengers" -> {"name"}
          [] t = "routes"     -> {"origin", "destination", "distance"}
          [] OTHER            -> {"passenger_id", "route_id", "discount_value"}]

Store(rows, seq) == [rows |-> rows, seq |-> seq]

\* the schema just created: three tables, no row
EmptyStore == Store([t \in TableNames |-> {}], [t \in TableNames |-> 0])

\* the statements sent: INSERT INTO table (fields) VALUES (?...) with the
\* parameters in nulls bound to None, DELETE FROM table, SELECT * FROM table
Statement(sql, table, fields, nulls) ==
    [sql |-> sql, table |-> table, fields |-> fields, nulls |-> nulls]

NoFields == [c \in {} |-> 0]

InsertInto(table, fields, nulls) == Statement("INSERT", table, fields, nulls)
DeleteFrom(table) == Statement("DELETE", table, NoFields, {})
SelectFrom(table) == Statement("SELECT", table, NoFields, {})

\* the join of train.main and evaluate.main (discounts, passengers, routes)
TrainingQuery == Statement("SELECT ... JOIN ... WHERE trips > 0", "discounts", NoFields, {})

\* rows in rowid order, as a SELECT lists them
RECURSIVE ById(_)
ById(S) ==
    IF S = {} THEN <<>>
    ELSE LET m == CHOOSE r \in S : \A o \in S : r.id <= o.id
         IN  <<m>> \o ById(S \ {m})

\* INSERT: the row gets the next id of its table
AddRow(s, t, fields) ==
    Store([s.rows EXCEPT ![t] = @ \cup {("id" :> (s.seq[t] + 1)) @@ fields}],
          [s.seq EXCEPT ![t] = @ + 1])

\* json_extract(travel_history, '$.key'): NULL (here -1) when the key is absent
JsonExtract(h, key) == IF key \in DOMAIN h THEN h[key] ELSE -1

IsNull(v) == v = -1

\* one joined row of the training query: discount d, its passenger p, its
\* route r.  distance * 1.60934; total_spend / NULLIF(trips, 0); a NULL is
\* None in the row and NaN in the table built from it
TrainingRow(d, p, r) ==
    [discount_value |-> Whole(d.discount_value),
     distance_km    |-> Num(r.distance * KmPerMileNum, KmPerMileDen),
     history_trips  |-> Whole(JsonExtract(p.travel_history, "trips")),
     avg_spend      |-> IF IsNull(JsonExtract(p.travel_history, "total_spend")) THEN NaN
                        ELSE Num(JsonExtract(p.travel_history, "total_spend"),
                                 JsonExtract(p.travel_history, "trips")),
     route_id       |-> Whole(d.route_id),
     origin         |-> Str(r.origin),
     destination    |-> Str(r.destination)]

\* FROM discounts d JOIN passengers p ON d.passenger_id = p.id JOIN routes r
\* ON d.route_id = r.id WHERE CAST(json_extract(..., '$.trips') AS INTEGER) > 0
\* (NULL > 0 is not true)
TrainingRows(s) ==
    LET PassengerOf(d) == {p \in s.rows["passengers"] : p.id = d.passenger_id}
        RouteOf(d) == {r \in s.rows["routes"] : r.id = d.route_id}
        joined == ById({ d \in s.rows["discounts"] :
                           /\ RouteOf(d) # {}
                           /\ \E p \in PassengerOf(d) :
                                  JsonExtract(p.travel_history, "trips") > 0 })
    IN  [i \in 1..Len(joined) |->
            TrainingRow(joined[i], CHOOSE p \in PassengerOf(joined[i]) : TRUE,
                        CHOOSE r \in RouteOf(joined[i]) : TRUE)]

Result(exc, store, rows) == [exc |-> exc, store |-> store, rows |-> rows]

\* cursor.execute(query, params) on a connection whose view of the data is s
Run(s, q) ==
    IF q = TrainingQuery THEN Result("", s, TrainingRows(s))
    ELSE IF q.table \notin TableNames
         THEN Result("OperationalError", s, <<>>)    \* no such table
    ELSE IF q.sql = "INSERT"
         THEN IF q.nulls \cap NotNullColumns[q.table] # {}
              THEN Result("IntegrityError", s, <<>>) \* NOT NULL constraint failed
              ELSE Result("", AddRow(s, q.table, q.fields), <<>>)
    ELSE IF q.sql = "DELETE"
         THEN Result("", Store([s.rows EXCEPT ![q.table] = {}], s.seq), <<>>)
    ELSE Result("", s, ById(s.rows[q.table]))

Returned(kind, value, rows) == [kind |-> kind, value |-> value, rows |-> rows]

\* what fetch_data and execute return
None == Returned("None", FALSE, <<>>)
List(rows) == Returned("list", FALSE, rows)
Bool(b) == Returned("bool", b, <<>>)

\* the latest call on the object: the statement, the value returned, the
\* exception that left the method ("" when it returned)
DbCall(op, q, ret, exc) == [op |-> op, q |-> q, ret |-> ret, exc |-> exc]

NoDbCall == DbCall("", SelectFrom(""), None, "")

\* a Database object and its file: whether self.connection is set, the data
\* as the open connection sees it (view), the committed data (file)
Database(connection, view, file, call) ==
    [connection |-> connection, view |-> view, file |-> file, call |-> call]

\* Database(path) on a file holding s: __init__ leaves connection = None
NewDatabase(s) == Database(FALSE, s, s, NoDbCall)

\* connect(): sqlite3.connect opens the file, or fails (a path that cannot be
\* opened) and leaves self.connection as it was
connect(self, opens) ==
    IF opens THEN Database(TRUE, self.file, self.file, DbCall("connect", SelectFrom(""), None, ""))
    ELSE [self EXCEPT !.call = DbCall("connect", SelectFrom(""), None, "")]

\* close(): uncommitted work of the connection is discarded
close(self) ==
    Database(FALSE, self.file, self.file, DbCall("close", SelectFrom(""), None, ""))

\* fetch_data(query): no commit, no rollback
fetch_data(self, q) ==
    IF ~self.connection THEN [self EXCEPT !.call = DbCall("fetch_data", q, None, "")]
    ELSE LET r == Run(self.view, q)
         IN  IF r.exc # "" THEN [self EXCEPT !.call = DbCall("fetch_data", q, List(<<>>), "")]
             ELSE [self EXCEPT !.view = r.store,
                               !.call = DbCall("fetch_data", q, List(r.rows), "")]

\* a variant that returns True without committing
execute_NoCommit(self, q) ==
    IF ~self.connection THEN [self EXCEPT !.call = DbCall("execute", q, Bool(FALSE), "")]
    ELSE LET r == Run(self.view, q)
         IN  IF r.exc # ""
             THEN [self EXCEPT !.view = self.file,
                               !.call = DbCall("execute", q, Bool(FALSE), "")]
             ELSE [self EXCEPT !.view = r.store,
                               !.call = DbCall("execute", q, Bool(TRUE), "")]

\* execute(query): cursor.execute then commit and True; on an exception
\* rollback and False
execute(self, q) ==
    IF ~self.connection THEN [self EXCEPT !.call = DbCall("execute", q, Bool(FALSE), "")]
    ELSE LET r == Run(self.view, q)
         IN  IF r.exc # ""
             THEN [self EXCEPT !.view = self.file,
                               !.call = DbCall("execute", q, Bool(FALSE), "")]
             ELSE [self EXCEPT !.view = r.store, !.file = r.store,
                               !.call = DbCall("execute", q, Bool(TRUE), "")]

(***************************************************************************)
(* The MCP front end (mcp_synth/server.py) and the files it can reach.  A  *)
(* file name is a sequence of pieces of text ("data_old" is <<"data",      *)
(* "_old">>), a path a sequence of names from the root, and the text of a  *)
(* path the pieces of its names with "/" before each, so that              *)
(* str.startswith on two path texts is a prefix test on pieces.            *)
(***************************************************************************)
DotDot == <<"..">>
Slash == <<"/">>

\* the working directory of the server: the project root
Cwd == << <<"app">> >>

\* Path(p).resolve() of a request path: relative paths start at the working
\* directory, a leading "/" at the root; ".." steps to the parent
RECURSIVE Normal(_, _)
Normal(base, parts) ==
    IF parts = <<>> THEN base
    ELSE Normal(IF Head(parts) = DotDot
                THEN (IF base = <<>> THEN base ELSE Parent(base))
                ELSE Append(base, Head(parts)),
                Tail(parts))

resolve(p) ==
    IF p # <<>> /\ Head(p) = Slash THEN Normal(<<>>, Tail(p)) ELSE Normal(Cwd, p)

\* str(path)
RECURSIVE PathString(_)
PathString(p) == IF p = <<>> THEN <<>> ELSE <<"/">> \o Head(p) \o PathString(Tail(p))

\* s.startswith(t)
StartsWith(s, t) == Len(t) <= Len(s) /\ SubSeq(s, 1, Len(t)) = t

allowed_prefixes == { resolve(<< <<"data">> >>), resolve(<< <<"synth_models">> >>) }

\* any(str(resolved).startswith(str(prefix)) for prefix in allowed_prefixes)
PrefixAllows(resolved) ==
    \E prefix \in allowed_prefixes : StartsWith(PathString(resolved), PathString(prefix))

\* the directories and regular files of the machine
Tree(dirs, files) == [dirs |-> dirs, files |-> files]

\* os.makedirs(dir, exist_ok=True) / Path.mkdir(parents=True, exist_ok=True)
CanMakeDirs(t, dir) == \A q \in Prefixes(dir) : q \notin t.files

MakeDirs(t, dir) == Tree(t.dirs \cup Prefixes(dir), t.files)

\* open(path, "w") in an existing directory
CanCreate(t, path) == path # <<>> /\ Parent(path) \in t.dirs /\ path \notin t.dirs

Create(t, path) == Tree(t.dirs, t.files \cup {path})

Extensions == {".json", ".csv", ".txt", ".zip"}

\* Path.stem: the name without its last suffix
Stem(name) ==
    IF Len(name) > 1 /\ name[Len(name)] \in Extensions
    THEN SubSeq(name, 1, Len(name) - 1) ELSE name

\* what a tool did: the status of the answer (200, or the code of the error),
\* the paths whose content or listing it read, the files it wrote, the tree
\* it left
Response(status, read, wrote, tree) ==
    [status |-> status, read |-> read, wrote |-> wrote, tree |-> tree]

\* synth_generate(req): runs the generator (ran: it exited with status 0),
\* then writes its output under out_dir
synth_generate(t, out_dir, ran) ==
    LET dir == resolve(out_dir)
        out_file == Append(dir, <<"generated_data", ".json">>)
    IN  IF ~ran \/ ~CanMakeDirs(t, dir) \/ ~CanCreate(MakeDirs(t, dir), out_file)
        THEN Response(500, {}, {}, t)
        ELSE Response(200, {}, {out_file}, Create(MakeDirs(t, dir), out_file))

\* synth_inspect_model(req): lists the files under model_dir
synth_inspect_model(t, model_dir) ==
    LET p == resolve(model_dir)
    IN  IF p \notin t.dirs THEN Response(400, {}, {}, t)
        ELSE Response(200, {p}, {}, t)

\* preview_table_head(req): the prefix check, then the file is read
preview_table_head(t, path) ==
    LET resolved == resolve(path)
    IN  IF ~PrefixAllows(resolved) THEN Response(403, {}, {}, t)
        ELSE IF resolved \notin t.files THEN Response(404, {}, {}, t)
        ELSE Response(200, {resolved}, {}, t)

\* synth_stats(req): the same check, then the file is read
synth_stats(t, path) ==
    LET resolved == resolve(path)
    IN  IF ~PrefixAllows(resolved) THEN Response(403, {}, {}, t)
        ELSE IF resolved \notin t.files THEN Response(404, {}, {}, t)
        ELSE Response(200, {resolved}, {}, t)

\* include_patterns ["*.json", "*.csv", "*.txt"] in source (glob, one level)
Matching(t, source) ==
    { f \in t.files : Parent(f) = source /\ f[Len(f)][Len(f[Len(f)])] \in {".json", ".csv", ".txt"} }

\* export_archive(req): the prefix check on source_dir, then the matching
\* files are zipped into source's parent / archive_name
export_archive(t, source_dir, archive_name) ==
    LET resolved_source == resolve(source_dir)
        archive_path == Normal(Parent(resolved_source), archive_name)
    IN  IF ~PrefixAllows(resolved_source) THEN Response(403, {}, {}, t)
        ELSE IF resolved_source \notin t.dirs THEN Response(404, {}, {}, t)
        ELSE IF Matching(t, resolved_source) = {} THEN Response(404, {resolved_source}, {}, t)
        ELSE IF ~CanCreate(t, archive_path) THEN Response(500, {resolved_source}, {}, t)
        ELSE Response(200, {resolved_source} \cup Matching(t, resolved_source),
                      {archive_path}, Create(t, archive_path))

\* what tools/call answered: the tool's response and the log file written
Answer(status, r, log, tree) ==
    [status |-> status, read |-> r.read, wrote |-> r.wrote, log |-> log, tree |-> tree]

\* tools/call, after the tool returned: the formatted text is written to
\* log_file, or to the tool's default when log_file is "" (here <<>>); a tool
\* that raised has its error returned and nothing logged; an error while
\* logging is the server error -32000
WithLog(r, log_file, default) ==
    LET log == IF log_file = <<>> THEN default ELSE resolve(log_file)
    IN  IF r.status # 200 THEN Answer(r.status, r, {}, r.tree)
        ELSE IF ~CanMakeDirs(r.tree, Parent(log))
                \/ ~CanCreate(MakeDirs(r.tree, Parent(log)), log)
             THEN Answer(-32000, r, {}, r.tree)
        ELSE Answer(200, r, {log}, Create(MakeDirs(r.tree, Parent(log)), log))

\* the default log file of a tool that worked on path: next to it, named
\* after its stem
LogBeside(path, suffix) ==
    Append(Parent(path), Stem(path[Len(path)]) \o suffix)

\* the server: the tree of files, the number of requests served, and the
\* latest tools/call with its answer
Server(tree, served, call) == [tree |-> tree, served |-> served, call |-> call]

McpCall(tool, arg, a) ==
    [tool |-> tool, arg |-> arg, status |-> a.status, read |-> a.read, wrote |-> a.wrote,
     log |-> a.log]

\* the project as checked out, a sibling directory of data/ and files outside
InitialTree ==
    Tree(UNION { Prefixes(d) :
                   d \in { Cwd \o << <<"data">>, <<"out">> >>,
                           Cwd \o << <<"data", "_old">> >>,
                           Cwd \o << <<"synth_models">>, <<"airline_data">> >>,
                           << <<"etc">> >> } },
         { Cwd \o << <<"data">>, <<"out">>, <<"g", ".json">> >>,
           Cwd \o << <<"data", "_old">>, <<"p", ".json">> >>,
           Cwd \o << <<"secret", ".txt">> >>,
           << <<"etc">>, <<"passwd">> >> })

\* the server before its first request, on a given tree
NewServer(tree) ==
    Server(tree, 0, McpCall("", <<>>, Answer(0, Response(0, {}, {}, tree), {}, tree)))

\* no server running: nothing but the root
NoServer == NewServer(Tree({<<>>}, {}))

(***************************************************************************)
(* State and operations.                                                   *)
(***************************************************************************)
vars == <<df, bf, preds, heap, fs, last, db, srv>>

Call(op, inst, X, y, path, err, ret) ==
    [op |-> op, inst |-> inst, X |-> X, y |-> y, path |-> path, err |-> err, ret |-> ret]

NoCall == Call("", 0, NotATable, NotASeries, <<>>, NoError, NotASeries)

EmptyFileSystem == [dirs |-> {<<>>}, files |-> [q \in {} |-> Artifact(NewPipeline, 0)]]

PipeOf(self) == IF self.pipeline = 0 THEN NewPipeline ELSE heap[self.pipeline]

\* one predictor constructed (untrained), nothing on disk
InitPredictor ==
    /\ preds = <<Instance(FALSE, 1)>>
    /\ heap = <<NewPipeline>>
    /\ fs = EmptyFileSystem
    /\ last = NoCall
    /\ db = NewDatabase(EmptyStore)
    /\ srv = NoServer

Init ==
    /\ InitPredictor
    /\ df = NotATable
    /\ bf = BfNotCalled

\* a variant in which the pipeline is built once for the class: every new
\* instance holds the pipeline object of the first one
Construct_SharesPipeline ==
    /\ Len(preds) < MaxInst
    /\ preds' = Append(preds, Instance(FALSE, 1))
    /\ heap' = heap
    /\ last' = Call("init", Len(preds) + 1, NotATable, NotASeries, <<>>, NoError, NotASeries)
    /\ UNCHANGED <<srv, db, df, bf, fs>>

\* DiscountPredictor(): a new instance owning a new pipeline object
Construct ==
    /\ Len(preds) < MaxInst
    /\ preds' = Append(preds, Instance(FALSE, Len(heap) + 1))
    /\ heap' = Append(heap, NewPipeline)
    /\ last' = Call("init", Len(preds) + 1, NotATable, NotASeries, <<>>, NoError, NotASeries)
    /\ UNCHANGED <<srv, db, df, bf, fs>>

\* preds[i].fit(X, y)
Fit(i, X, y) ==
    LET self == preds[i]
        r == fit(self, PipeOf(self), X, y)
    IN  /\ preds' = [preds EXCEPT ![i].fitted = r.fitted]
        /\ heap' = IF self.pipeline = 0 THEN heap ELSE [heap EXCEPT ![self.pipeline] = r.pipe]
        /\ last' = Call("fit", i, X, y, <<>>, r.err, NotASeries)
        /\ UNCHANGED <<srv, db, df, bf, fs>>

\* a variant whose pipeline call refits the preprocessing stage on the input
\* (fit_transform where transform is meant)
Predict_RefitsPrep(i, X) ==
    LET self == preds[i]
        r == predict(self, PipeOf(self), X)
    IN  /\ last' = Call("predict", i, X, NotASeries, <<>>, r.err, r.ret)
        /\ heap' = IF r.err = NoError
                   THEN [heap EXCEPT ![self.pipeline].prep = Stage(TRUE, FeatureRows(X), <<>>)]
                   ELSE heap
        /\ UNCHANGED <<srv, db, df, bf, preds, fs>>

\* preds[i].predict(X)
Predict(i, X) ==
    LET self == preds[i]
        r == predict(self, PipeOf(self), X)
    IN  /\ last' = Call("predict", i, X, NotASeries, <<>>, r.err, r.ret)
        /\ UNCHANGED <<srv, db, df, bf, preds, heap, fs>>

\* preds[i].save(path)
Save(i, path) ==
    LET self == preds[i]
        r == save(self, PipeOf(self), fs, path)
    IN  /\ fs' = r.fs
        /\ last' = Call("save", i, NotATable, NotASeries, path, r.err, NotASeries)
        /\ UNCHANGED <<srv, db, df, bf, preds, heap>>

\* DiscountPredictor.load(path): on success a new instance with a new pipeline object
Load(path) ==
    LET r == load(fs, path, Len(heap) + 1)
    IN  IF r.err.exc # ""
        THEN /\ last' = Call("load", 0, NotATable, NotASeries, path, r.err, NotASeries)
             /\ UNCHANGED <<srv, db, df, bf, preds, heap, fs>>
        ELSE /\ Len(preds) < MaxInst
             /\ preds' = Append(preds, r.obj)
             /\ heap' = Append(heap, r.pipe)
             /\ last' = Call("load", Len(preds) + 1, NotATable, NotASeries, path, NoError,
                             NotASeries)
             /\ UNCHANGED <<srv, db, df, bf, fs>>

\* the life of predictors: construction, training, prediction, persistence
Next ==
    \/ Construct
    \/ \E i \in 1..Len(preds), d \in LifecycleFits : Fit(i, d[1], d[2])
    \/ \E i \in 1..Len(preds), X \in LifecycleX : Predict(i, X)
    \/ \E i \in 1..Len(preds), path \in Paths : Save(i, path)
    \/ \E path \in Paths : Load(path)

Spec == Init /\ [][Next]_vars

\* one predictor called with every kind of argument
NextValidation ==
    \/ \E X \in ValidationX, y \in ValidationY : Fit(1, X, y)
    \/ \E X \in ValidationX : Predict(1, X)

SpecValidation == Init /\ [][NextValidation]_vars

\* one predictor trained, retrained, asked and saved; some of the fits fail
RetrainFits == LifecycleFits \cup { <<XAB, YWithNaN>>, <<XD, YEmpty>> }

NextRetrain ==
    \/ \E d \in RetrainFits : Fit(1, d[1], d[2])
    \/ \E X \in LifecycleX : Predict(1, X)
    \/ \E path \in Paths : Save(1, path)

SpecRetrain == Init /\ [][NextRetrain]_vars

\* The artifact store as load may find it: nothing there, or a file at
\* m.joblib left by an earlier run of this or another release (version 1, a
\* later version 2, no version key), or a file of no bytes.
TrainedElsewhere == fit(Instance(FALSE, 1), NewPipeline, XD, YPermuted).pipe

StoreWith(blob) == WriteFile(EmptyFileSystem, <<"m.joblib">>, blob)

InitialStores ==
    { EmptyFileSystem,
      StoreWith(Artifact(TrainedElsewhere, 1)),
      StoreWith(Artifact(TrainedElsewhere, 2)),
      StoreWith(Unversioned(TrainedElsewhere)),
      StoreWith(EmptyFile) }

InitArtifacts ==
    /\ preds = <<Instance(FALSE, 1)>>
    /\ heap = <<NewPipeline>>
    /\ fs \in InitialStores
    /\ last = NoCall
    /\ db = NewDatabase(EmptyStore)
    /\ srv = NoServer
    /\ df = NotATable
    /\ bf = BfNotCalled

NextArtifacts ==
    \/ Fit(1, XD, YOther)
    \/ \E i \in 1..Len(preds) : Predict(i, XD)
    \/ \E i \in 1..Len(preds), path \in Paths : Save(i, path)
    \/ \E path \in Paths : Load(path)

SpecArtifacts == InitArtifacts /\ [][NextArtifacts]_vars

\* build_features applied to one input
InitFeatures ==
    /\ InitPredictor
    /\ df \in FeatureInputs(MaxRows)
    /\ bf = BfNotCalled

\* a variant that derives history_trips in the caller's table (df[...] = ...
\* where out[...] = ... is meant)
BuildFeatures_InPlace ==
    /\ bf' = build_features(df)
    /\ df' = IF df.kind = "DataFrame" /\ ~IsEmpty(df) THEN HistoryTripsField(df, df) ELSE df
    /\ UNCHANGED <<srv, db, preds, heap, fs, last>>

\* one call out = build_features(df); the caller may call again on the same table
BuildFeatures ==
    /\ bf' = build_features(df)
    /\ UNCHANGED <<srv, db, df, preds, heap, fs, last>>

NextFeatures == BuildFeatures

SpecFeatures == InitFeatures /\ [][NextFeatures]_vars

(***************************************************************************)
(* The store in use: Database calls, the sample loader, and the training   *)
(* and evaluation entry points.                                            *)
(***************************************************************************)
MaxRowId == 4

\* travel_history objects: with the keys the training query extracts, and
\* as load_sample_data writes them
HistoryWithTrips == [trips |-> 4, total_spend |-> 1000]
HistoryZeroTrips == [trips |-> 0, total_spend |-> 50]

Statements ==
    { InsertInto("passengers", [name |-> "Ann", travel_history |-> HistoryWithTrips], {}),
      InsertInto("passengers", [name |-> "", travel_history |-> HistoryZeroTrips], {"name"}),
      InsertInto("discounts", [passenger_id |-> 1, route_id |-> 1, discount_value |-> 15], {}),
      DeleteFrom("passengers"),
      DeleteFrom("predictions"),
      SelectFrom("discounts") }

Queries == { SelectFrom("passengers"), SelectFrom("predictions"), TrainingQuery }

WithinIds(s) == \A t \in TableNames : s.seq[t] <= MaxRowId

\* load_sample_data(db): three passengers, three routes, three discounts
\* through db.connection, then commit
SamplePassengers ==
    << [name |-> "John Smith",  travel_history |-> [flights |-> 10, miles |-> 5000]],
       [name |-> "Jane Doe",    travel_history |-> [flights |-> 25, miles |-> 15000]],
       [name |-> "Bob Johnson", travel_history |-> [flights |-> 5,  miles |-> 2500]] >>

SampleRoutes ==
    << [origin |-> "New York",      destination |-> "London", distance |-> 3459],
       [origin |-> "Los Angeles",   destination |-> "Tokyo",  distance |-> 5478],
       [origin |-> "San Francisco", destination |-> "Paris",  distance |-> 5558] >>

SampleDiscounts ==
    << [passenger_id |-> 1, route_id |-> 1, discount_value |-> 15],
       [passenger_id |-> 2, route_id |-> 2, discount_value |-> 25],
       [passenger_id |-> 3, route_id |-> 3, discount_value |-> 10] >>

\* cursor.executemany("INSERT INTO t ...", records)
RECURSIVE ExecuteMany(_, _, _)
ExecuteMany(s, t, records) ==
    IF records = <<>> THEN s
    ELSE ExecuteMany(AddRow(s, t, Head(records)), t, Tail(records))

load_sample_data(s) ==
    ExecuteMany(ExecuteMany(ExecuteMany(s, "passengers", SamplePassengers),
                            "routes", SampleRoutes),
                "discounts", SampleDiscounts)

\* db.connect()
Connect ==
    /\ \E opens \in BOOLEAN : db' = connect(db, opens)
    /\ UNCHANGED <<srv, df, bf, preds, heap, fs, last>>

\* db.close()
Close ==
    /\ db' = close(db)
    /\ UNCHANGED <<srv, df, bf, preds, heap, fs, last>>

\* db.execute(q)
Execute(q) ==
    /\ WithinIds(Run(db.view, q).store)
    /\ db' = execute(db, q)
    /\ UNCHANGED <<srv, df, bf, preds, heap, fs, last>>

\* db.fetch_data(q)
FetchData(q) ==
    /\ db' = fetch_data(db, q)
    /\ UNCHANGED <<srv, df, bf, preds, heap, fs, last>>

InitDatabase ==
    /\ InitPredictor
    /\ df = NotATable
    /\ bf = BfNotCalled

NextDatabase ==
    \/ Connect
    \/ Close
    \/ \E q \in Statements : Execute(q)
    \/ \E q \in Queries : FetchData(q)

SpecDatabase == InitDatabase /\ [][NextDatabase]_vars

(***************************************************************************)
(* The entry points training/train.py main and training/evaluate.py main,  *)
(* run as scripts against the database file and the artifact store.        *)
(***************************************************************************)
ModelPath == <<"models", "discount_predictor.pkl">>

TrainingColumns ==
    <<"discount_value", "distance_km", "history_trips", "avg_spend", "route_id",
      "origin", "destination">>

\* pd.DataFrame(rows, columns=[...]): a RangeIndex 0..n-1
TrainingFrame(rows) ==
    Table(TrainingColumns, [i \in 1..Len(rows) |-> i - 1],
          [c \in Range(TrainingColumns) |-> [i \in 1..Len(rows) |-> rows[i][c]]])

\* df.drop(c, axis=1) and df[c]
DropColumn(t, c) ==
    Table(FilterSeq(t.columns, ColumnSet(t) \ {c}), t.index,
          [k \in ColumnSet(t) \ {c} |-> t.data[k]])

ColumnOf(t, c) == Series(t.index, t.data[c], c)

\* get_connection(): a new Database on the project's file, connected
get_connection(s) == connect(NewDatabase(s), TRUE)

\* what a run of main did: the exception it ended with, the artifact store
\* and the database file after it, the data it used, the value it computed
MainOutcome(err, f, s, X, y, ret) ==
    [err |-> err, fs |-> f, store |-> s, X |-> X, y |-> y, ret |-> ret]

NoRowsFound(what) ==
    Raised("ValueError", "No " \o what \o " data found. Run 'make db-init' to load sample data.", {})

\* train.main(): fetch the joined rows, fit a new DiscountPredictor on them,
\* save it to models/discount_predictor.pkl
train_main(s, f) ==
    LET conn == fetch_data(get_connection(s), TrainingQuery)
        rows == conn.call.ret
        frame == TrainingFrame(rows.rows)
        X == DropColumn(frame, "discount_value")
        y == ColumnOf(frame, "discount_value")
        r == train_model(Instance(FALSE, 1), NewPipeline, [features |-> X, labels |-> y])
        w == save(Instance(r.fitted, 1), r.pipe, f, ModelPath)
    IN  IF rows.kind # "list" \/ rows.rows = <<>>
        THEN MainOutcome(NoRowsFound("training"), f, close(conn).file, NotATable, NotASeries,
                         NotASeries)
        ELSE IF r.err # NoError THEN MainOutcome(r.err, f, close(conn).file, X, y, NotASeries)
        ELSE MainOutcome(w.err, w.fs, close(conn).file, X, y, NotASeries)

\* evaluate.main(): load the saved model, fetch the same rows, predict them
evaluate_main(s, f) ==
    LET l == load(f, ModelPath, 1)
        conn == fetch_data(get_connection(s), TrainingQuery)
        rows == conn.call.ret
        frame == TrainingFrame(rows.rows)
        X == DropColumn(frame, "discount_value")
        y == ColumnOf(frame, "discount_value")
        p == predict(l.obj, l.pipe, X)
    IN  IF ~IsFile(f, ModelPath) /\ ~IsDir(f, ModelPath)
        THEN MainOutcome(Raised("FileNotFoundError", "Model not found", {}), f, s,
                         NotATable, NotASeries, NotASeries)
        ELSE IF l.err # NoError
             THEN MainOutcome(l.err, f, s, NotATable, NotASeries, NotASeries)
        ELSE IF rows.kind # "list" \/ rows.rows = <<>>
             THEN MainOutcome(NoRowsFound("test"), f, close(conn).file, NotATable, NotASeries,
                              NotASeries)
        ELSE MainOutcome(p.err, f, close(conn).file, X, y, p.ret)

\* a variant of train.main that deletes the discounts it has trained on
TrainMain_ConsumesRows ==
    LET r == train_main(db.file, fs)
        left == IF r.err = NoError THEN Run(r.store, DeleteFrom("discounts")).store
                ELSE r.store
    IN  /\ fs' = r.fs
        /\ db' = [db EXCEPT !.file = left, !.view = left]
        /\ last' = Call("train.main", 0, r.X, r.y, ModelPath, r.err, r.ret)
        /\ UNCHANGED <<srv, df, bf, preds, heap>>

\* python src/training/train.py
TrainMain ==
    LET r == train_main(db.file, fs)
    IN  /\ fs' = r.fs
        /\ db' = [db EXCEPT !.file = r.store, !.view = r.store]
        /\ last' = Call("train.main", 0, r.X, r.y, ModelPath, r.err, r.ret)
        /\ UNCHANGED <<srv, df, bf, preds, heap>>

\* python src/training/evaluate.py
EvaluateMain ==
    LET r == evaluate_main(db.file, fs)
    IN  /\ fs' = r.fs
        /\ db' = [db EXCEPT !.file = r.store, !.view = r.store]
        /\ last' = Call("evaluate.main", 0, r.X, r.y, ModelPath, r.err, r.ret)
        /\ UNCHANGED <<srv, df, bf, preds, heap>>

\* load_sample_data() through a connection of its own
LoadSampleData ==
    /\ WithinIds(load_sample_data(db.file))
    /\ db' = [db EXCEPT !.file = load_sample_data(db.file),
                        !.view = load_sample_data(db.file)]
    /\ UNCHANGED <<srv, df, bf, preds, heap, fs, last>>

\* rows as another loader writes them: a passenger whose history has the
\* keys the query reads, a route, a discount joining the first of each
TrainingStatements ==
    { InsertInto("passengers", [name |-> "Ann", travel_history |-> HistoryWithTrips], {}),
      InsertInto("routes", [origin |-> "NYC", destination |-> "LON", distance |-> 1000], {}),
      InsertInto("discounts", [passenger_id |-> 1, route_id |-> 1, discount_value |-> 15], {}) }

\* the schema created, a connection open, no model trained yet
InitTraining ==
    /\ preds = <<Instance(FALSE, 1)>>
    /\ heap = <<NewPipeline>>
    /\ fs = EmptyFileSystem
    /\ last = NoCall
    /\ db = connect(NewDatabase(EmptyStore), TRUE)
    /\ srv = NoServer
    /\ df = NotATable
    /\ bf = BfNotCalled

NextTraining ==
    \/ \E q \in TrainingStatements : Execute(q)
    \/ LoadSampleData
    \/ TrainMain
    \/ EvaluateMain

SpecTraining == InitTraining /\ [][NextTraining]_vars

(***************************************************************************)
(* The synthetic-data loader (.github/skills/generate-dataset-synth/       *)
(* run_synth.py): the generator's records are inserted through a           *)
(* connection of the loader's own.                                         *)
(***************************************************************************)
MaxRecords == 2

\* the generator's output: n records of a collection
GeneratedPassengers(n) ==
    [i \in 1..n |-> [name |-> "P", travel_history |-> HistoryWithTrips]]

GeneratedRoutes(n) ==
    [i \in 1..n |-> [origin |-> "NYC", destination |-> "LON", distance |-> 1000]]

GeneratedDiscounts(n) == [i \in 1..n |-> [discount_value |-> 10 * i]]

\* DELETE FROM discounts, routes, passengers
clear_tables(s) ==
    Run(Run(Run(s, DeleteFrom("discounts")).store, DeleteFrom("routes")).store,
        DeleteFrom("passengers")).store

load_passengers(s, records) == ExecuteMany(s, "passengers", records)

load_routes(s, records) == ExecuteMany(s, "routes", records)

\* passenger_id = (i % passenger_count) + 1, route_id = (i % route_count) + 1
\* for i = 0, 1, ... (called with counts that are not zero)
load_discounts(s, passenger_count, route_count, records) ==
    ExecuteMany(s, "discounts",
        [i \in 1..Len(records) |->
            [passenger_id   |-> ((i - 1) % passenger_count) + 1,
             route_id       |-> ((i - 1) % route_count) + 1,
             discount_value |-> records[i].discount_value]])

\* main(), from "Load into database" on: each step commits; the modulo by a
\* count of zero raises ZeroDivisionError, which ends the run with exit
\* status 1 and what was committed before
run_synth(s, no_clear, passengers, routes, discounts) ==
    LET cleared == IF no_clear THEN s ELSE clear_tables(s)
        loaded == load_routes(load_passengers(cleared, passengers), routes)
    IN  IF discounts # <<>> /\ (passengers = <<>> \/ routes = <<>>)
        THEN [store |-> loaded, status |-> 1]
        ELSE [store |-> load_discounts(loaded, Len(passengers), Len(routes), discounts),
              status |-> 0]

\* python run_synth.py [--no-clear] with np, nr, nd records generated
RunSynth(no_clear, np, nr, nd) ==
    LET r == run_synth(db.file, no_clear, GeneratedPassengers(np), GeneratedRoutes(nr),
                       GeneratedDiscounts(nd))
    IN  /\ WithinIds(r.store)
        /\ db' = [db EXCEPT !.file = r.store, !.view = r.store,
                            !.call = DbCall("run_synth", SelectFrom(""), Bool(r.status = 0), "")]
        /\ UNCHANGED <<srv, df, bf, preds, heap, fs, last>>

NextSynth ==
    \E no_clear \in BOOLEAN, np \in 0..MaxRecords, nr \in 0..MaxRecords, nd \in 0..MaxRecords :
        RunSynth(no_clear, np, nr, nd)

\* a fresh database: the schema created, no row
SpecSynth == InitDatabase /\ [][NextSynth]_vars

(***************************************************************************)
(* The MCP server in use: tools/call requests with the arguments a client  *)
(* may send.                                                               *)
(***************************************************************************)
MaxRequests == 2

DataOut == << <<"data">>, <<"out">> >>

\* path arguments: a file under data/, one reached through "..", one in the
\* sibling directory data_old/, an absolute path, a file that is not there
RequestPaths ==
    { DataOut \o << <<"g", ".json">> >>,
      << <<"data">>, DotDot, <<"secret", ".txt">> >>,
      << <<"data", "_old">>, <<"p", ".json">> >>,
      << Slash, <<"etc">>, <<"passwd">> >>,
      DataOut \o << <<"missing", ".json">> >> }

\* log_file: not given, or a file above the project
LogFiles == { <<>>, << DotDot, <<"log", ".txt">> >> }

OutDirs == { DataOut, << DotDot, <<"tmp_out">> >> }

ModelDirs == { << <<"synth_models">>, <<"airline_data">> >>, << <<"no_models">> >> }

SourceDirs == { DataOut, << <<"data">> >>, << <<"data", "_old">> >>, << DotDot >> }

ArchiveNames == { << <<"e", ".zip">> >>, << DotDot, <<"e", ".zip">> >> }

\* one tools/call request answered
Serve(tool, arg, a) ==
    /\ srv.served < MaxRequests
    /\ srv' = Server(a.tree, srv.served + 1, McpCall(tool, arg, a))
    /\ UNCHANGED <<df, bf, preds, heap, fs, last, db>>

CallGenerate(out_dir, log_file, ran) ==
    Serve("synth_generate", <<out_dir, log_file>>,
          WithLog(synth_generate(srv.tree, out_dir, ran), log_file,
                  Append(resolve(out_dir), <<"generation_log", ".txt">>)))

CallInspect(model_dir, log_file) ==
    Serve("synth_inspect_model", <<model_dir, log_file>>,
          WithLog(synth_inspect_model(srv.tree, model_dir), log_file,
                  resolve(<< <<"data">>, <<"synthetic_output">>,
                             <<"model_inspection", ".txt">> >>)))

CallPreview(path, log_file) ==
    Serve("preview_table_head", <<path, log_file>>,
          WithLog(preview_table_head(srv.tree, path), log_file,
                  LogBeside(resolve(path), <<"_preview", ".txt">>)))

CallStats(path, log_file) ==
    Serve("synth_stats", <<path, log_file>>,
          WithLog(synth_stats(srv.tree, path), log_file,
                  LogBeside(resolve(path), <<"_stats", ".txt">>)))

CallExport(source_dir, archive_name, log_file) ==
    Serve("export_archive", <<source_dir, log_file, archive_name>>,
          WithLog(export_archive(srv.tree, source_dir, archive_name), log_file,
                  LogBeside(Normal(Parent(resolve(source_dir)), archive_name),
                            <<"_log", ".txt">>)))

NextMcp ==
    \/ \E out_dir \in OutDirs, log_file \in LogFiles, ran \in BOOLEAN :
          CallGenerate(out_dir, log_file, ran)
    \/ \E model_dir \in ModelDirs, log_file \in LogFiles : CallInspect(model_dir, log_file)
    \/ \E path \in RequestPaths, log_file \in LogFiles : CallPreview(path, log_file)
    \/ \E path \in RequestPaths, log_file \in LogFiles : CallStats(path, log_file)
    \/ \E source_dir \in SourceDirs, archive_name \in ArchiveNames, log_file \in LogFiles :
          CallExport(source_dir, archive_name, log_file)

\* the server started in the project directory
InitMcp ==
    /\ preds = <<Instance(FALSE, 1)>>
    /\ heap = <<NewPipeline>>
    /\ fs = EmptyFileSystem
    /\ last = NoCall
    /\ db = NewDatabase(EmptyStore)
    /\ srv = NewServer(InitialTree)
    /\ df = NotATable
    /\ bf = BfNotCalled

SpecMcp == InitMcp /\ [][NextMcp]_vars

(***************************************************************************)
(* Properties of build_features (checked under SpecFeatures).              *)
(***************************************************************************)
NonEmptyTable(t) == t.kind = "DataFrame" /\ ~IsEmpty(t)

BfReturned == bf.called /\ bf.outcome = "ok"

AllCells(cells, P(_)) == \A i \in 1..Len(cells) : P(cells[i])

\* the input columns a field can be derived from
FieldSources(f) ==
    CASE f = "distance_km"   -> {"distance_km", "distance"}
      [] f = "history_trips" -> {"history_trips", "trips_count"}
      [] f = "avg_spend"     -> {"avg_spend", "total_spend"}
      [] OTHER               -> {f}

\* C7: for every non-empty input table, whatever columns it has, build_features
\* returns a table with exactly the six required columns in the fixed order and
\* the input's index; a field with no source column is there, filled with the
\* unknown marker; no other input column is carried over.
C7_ExactlySixColumns ==
    (bf.called /\ NonEmptyTable(df)) =>
        /\ bf.outcome = "ok"
        /\ bf.out.kind = "DataFrame"
        /\ bf.out.columns = REQUIRED_OUTPUT_COLUMNS
        /\ DOMAIN bf.out.data = Range(REQUIRED_OUTPUT_COLUMNS)
        /\ bf.out.index = df.index
        /\ \A f \in Range(REQUIRED_OUTPUT_COLUMNS) :
              /\ Len(bf.out.data[f]) = Len(df.index)
              /\ (FieldSources(f) \cap ColumnSet(df) = {}) =>
                     AllCells(bf.out.data[f], IsMissing)

C7_Witness ==
    /\ BfReturned
    /\ Len(df.index) = 2
    /\ "spend" \in ColumnSet(df)
    /\ "origin" \notin ColumnSet(df)
    /\ "distance" \in ColumnSet(df)
    /\ AllCells(bf.out.data["origin"], IsMissing)

\* the miles-to-kilometres rule written out: a finite n/d becomes
\* (n * 160934) / (d * 100000), a missing value stays missing
ExpectedKm(c) == IF c.k = "num" THEN Num(c.n * 160934, c.d * 100000) ELSE c

UnknownColumn(cells) == AllCells(cells, LAMBDA c : c = NA)

\* C8: first matching rule wins per field: distance_km is the input's
\* distance_km if present (even next to a distance column), else distance times
\* 1.60934, else unknown; history_trips is the input's history_trips if present
\* (even next to trips_count), else trips_count, else unknown; route_id, origin
\* and destination are copied if present, else unknown.
C8_FirstRuleWins ==
    BfReturned =>
        /\ IF "distance_km" \in ColumnSet(df)
           THEN bf.out.data["distance_km"] = df.data["distance_km"]
           ELSE IF "distance" \in ColumnSet(df)
                THEN bf.out.data["distance_km"] =
                        [i \in 1..Len(df.index) |-> ExpectedKm(df.data["distance"][i])]
                ELSE UnknownColumn(bf.out.data["distance_km"])
        /\ IF "history_trips" \in ColumnSet(df)
           THEN bf.out.data["history_trips"] = df.data["history_trips"]
           ELSE IF "trips_count" \in ColumnSet(df)
                THEN bf.out.data["history_trips"] = df.data["trips_count"]
                ELSE UnknownColumn(bf.out.data["history_trips"])
        /\ \A f \in {"route_id", "origin", "destination"} :
              IF f \in ColumnSet(df)
              THEN bf.out.data[f] = df.data[f]
              ELSE UnknownColumn(bf.out.data[f])

\* 2150 miles come out as 3460.081 km although a distance_km column is absent,
\* and in another run both distance columns are present
C8_Witness ==
    /\ BfReturned
    /\ "distance" \in ColumnSet(df)
    /\ "distance_km" \notin ColumnSet(df)
    /\ bf.out.data["distance_km"][1] = Num(3460081, 1000)
    /\ {"history_trips", "trips_count"} \subseteq ColumnSet(df)
    /\ bf.out.data["history_trips"] # df.data["trips_count"]

\* C9: avg_spend is the input's avg_spend if present; otherwise, if total_spend
\* is present, total_spend divided row by row by the derived history_trips
\* (which may come from trips_count); otherwise unknown.
C9_AvgSpendRule ==
    BfReturned =>
        IF "avg_spend" \in ColumnSet(df)
        THEN bf.out.data["avg_spend"] = df.data["avg_spend"]
        ELSE IF "total_spend" \in ColumnSet(df)
             THEN \A i \in 1..Len(df.index) :
                     bf.out.data["avg_spend"][i] =
                         TrueDiv(df.data["total_spend"][i], bf.out.data["history_trips"][i])
             ELSE UnknownColumn(bf.out.data["avg_spend"])

\* 300 spent over 2 trips (history_trips present next to trips_count = 4) is 150
C9_Witness ==
    /\ BfReturned
    /\ "avg_spend" \notin ColumnSet(df)
    /\ {"total_spend", "history_trips", "trips_count"} \subseteq ColumnSet(df)
    /\ Len(df.index) >= 1
    /\ df.data["total_spend"][1] = Whole(300)
    /\ bf.out.data["avg_spend"][1] = Whole(150)

IsZero(c) == c.k = "num" /\ c.n = 0

\* C10: when avg_spend is derived from total_spend, every row whose
\* history_trips is zero or unknown gets the unknown marker as avg_spend, never
\* an infinite value or a number, and the call does not fail.
C10_ZeroTripsGiveUnknown ==
    (bf.called /\ NonEmptyTable(df)
        /\ "avg_spend" \notin ColumnSet(df) /\ "total_spend" \in ColumnSet(df)) =>
        /\ bf.outcome = "ok"
        /\ \A i \in 1..Len(df.index) :
              (IsZero(bf.out.data["history_trips"][i])
                  \/ IsMissing(bf.out.data["history_trips"][i]))
              => IsMissing(bf.out.data["avg_spend"][i])

\* C11: for every input that is not a table, or is a table with no rows or no
\* columns, build_features raises the ValueError "Input must be a non-empty
\* pandas DataFrame." and returns nothing.
C11_EmptyOrNonTableRejected ==
    (bf.called /\ ~NonEmptyTable(df)) =>
        /\ bf.outcome = "ValueError"
        /\ bf.msg = "Input must be a non-empty pandas DataFrame."
        /\ bf.out = NotATable

\* a table of two rows and no column at all is rejected as empty
C11_Witness ==
    /\ bf.called
    /\ df.kind = "DataFrame"
    /\ Len(df.index) = 2
    /\ df.columns = <<>>
    /\ bf.outcome = "ValueError"

(***************************************************************************)
(* Properties of DiscountPredictor.  A step whose call record changes to   *)
(* method m is a call of m; the unprimed state is the state before it.     *)
(***************************************************************************)
Calls(op) == last'.op = op

Untouched == preds' = preds /\ heap' = heap /\ fs' = fs

HasSixColumns(X) == Range(REQUIRED_FEATURES) \subseteq ColumnSet(X)

\* C1: on a predictor that never completed a fit (and was not loaded), predict
\* raises the "not fitted" RuntimeError for every input, valid or not, and the
\* predictor stays untrained.  The flag _fitted is raised only by a fit that
\* returns, so "never fitted" is "_fitted is False".
C1_PredictBeforeFitRaises ==
    [][ /\ (Calls("predict") /\ ~preds[last'.inst].fitted) =>
              /\ last'.err = Raised("RuntimeError", "Model not fitted. Call fit() first.", {})
              /\ last'.ret = NotASeries
              /\ Untouched
        /\ \A i \in 1..Len(preds) :
              (~preds[i].fitted /\ preds'[i].fitted) =>
                  (Calls("fit") /\ last'.inst = i /\ last'.err = NoError)
      ]_vars

C1_Witness ==
    /\ last.op = "predict"
    /\ ~preds[last.inst].fitted
    /\ last.err.exc = "RuntimeError"
    /\ NonEmptyTable(last.X)
    /\ ~HasSixColumns(last.X)

NoMissingPrediction(ret) ==
    \A k \in 1..Len(ret.values) : ~IsMissing(ret.values[k].value)

\* a feature table in the sense of the data model: numeric fields hold numbers
\* or the unknown marker, categorical fields identifiers or the unknown marker
HoldsFeatureValues(X) == RowsAccepted(FeatureRows(X))

\* C2: for every non-empty feature table with the six required columns, predict
\* on a trained predictor returns a series named discount_value with one value
\* per input row, the input's index, and no missing value.
C2_PredictReturnsOnePerRow ==
    (last.op = "predict" /\ preds[last.inst].fitted
        /\ NonEmptyTable(last.X) /\ HasSixColumns(last.X) /\ HoldsFeatureValues(last.X)) =>
        /\ last.err = NoError
        /\ last.ret.kind = "Series"
        /\ last.ret.name = "discount_value"
        /\ Len(last.ret.values) = Len(last.X.index)
        /\ last.ret.index = last.X.index
        /\ NoMissingPrediction(last.ret)

SamePredictions(a, b) ==
    \A X \in ValidationX :
        predict(preds'[a], heap'[preds'[a].pipeline], X)
            = predict(preds'[b], heap'[preds'[b].pipeline], X)

\* C3: after p.save(path), DiscountPredictor.load(path) returns a trained
\* predictor whose predict(X) equals p.predict(X) for every input X (same
\* values, index and name).
C3_SaveLoadRoundTrip ==
    [][ (last.op = "save" /\ last.err = NoError /\ Calls("load") /\ last'.path = last.path) =>
            /\ last'.err = NoError
            /\ preds'[last'.inst].fitted
            /\ SamePredictions(last'.inst, last.inst)
      ]_vars

C3_Witness ==
    /\ last.op = "load"
    /\ last.err = NoError
    /\ last.inst = 2
    /\ IsFile(fs, last.path)
    /\ fs.files[last.path].pipeline = heap[preds[1].pipeline]
    /\ predict(preds[2], heap[preds[2].pipeline], XD).err = NoError
    /\ predict(preds[2], heap[preds[2].pipeline], XD) = predict(preds[1], heap[preds[1].pipeline], XD)

C5_FitValidatesInputs ==
    [][ Calls("fit") =>
          /\ (last'.X.kind # "DataFrame" \/ IsEmpty(last'.X)
                \/ last'.y.kind # "Series" \/ Len(last'.y.index) = 0) =>
                /\ last'.err.exc = "ValueError"
                /\ Untouched
          /\ (last'.X.kind = "DataFrame" /\ IsEmpty(last'.X)) =>
                last'.err.text = "X is empty."
      ]_vars

C5_Witness ==
    /\ last.op = "fit"
    /\ last.X.kind = "DataFrame"
    /\ IsEmpty(last.X)
    /\ last.y = NotASeries
    /\ last.err = Raised("ValueError", "X is empty.", {})
    /\ ~preds[last.inst].fitted

\* C6: save on an untrained predictor raises a RuntimeError and leaves the file
\* system as it was: no artifact at the path, no parent directory created.
C6_SaveUntrainedHasNoEffect ==
    [][ (Calls("save") /\ ~preds[last'.inst].fitted) =>
            /\ last'.err = Raised("RuntimeError", "Cannot save an unfitted model.", {})
            /\ fs' = fs
            /\ preds' = preds /\ heap' = heap
      ]_vars

C6_Witness ==
    /\ last.op = "save"
    /\ ~preds[last.inst].fitted
    /\ last.err.exc = "RuntimeError"
    /\ last.path = <<"models", "discount_predictor.pkl">>
    /\ ~IsDir(fs, <<"models">>)
    /\ ~IsFile(fs, last.path)

\* the predictions of two predictor states are known to differ: for some input
\* one raises where the other returns, or both return and some row gets two
\* different numbers
PredictionsDiffer(selfA, pipeA, selfB, pipeB) ==
    \E X \in LifecycleX :
        LET a == predict(selfA, pipeA, X)
            b == predict(selfB, pipeB, X)
        IN  \/ (a.err = NoError) # (b.err = NoError)
            \/ /\ a.err = NoError
               /\ b.err = NoError
               /\ \E k \in 1..Len(X.index) :
                     /\ a.ret.values[k].value.k = "num"
                     /\ b.ret.values[k].value.k = "num"
                     /\ a.ret.values[k].value # b.ret.values[k].value

\* C12 as stated: once a predictor is trained it stays trained and no later
\* fit, predict or save call changes its learned parameters, i.e. the
\* predictions it returns for a fixed input.  Stated for the calls that
\* return: a call that raises is the subject of C13.
C12_TrainedStateImmutable ==
    [][ \A i \in 1..Len(preds) :
            (preds[i].fitted /\ last'.err = NoError) =>
                /\ preds'[i].fitted
                /\ ~PredictionsDiffer(preds[i], heap[preds[i].pipeline],
                                      preds'[i], heap'[preds'[i].pipeline])
      ]_vars

\* C12 amended: once a predictor is trained it stays trained whatever calls
\* follow, and its learned parameters change only in a later fit call on the
\* same instance; no predict or save call changes them.
C12_OnlyFitReplacesParameters ==
    [][ \A i \in 1..Len(preds) :
            preds[i].fitted =>
                /\ preds'[i].fitted
                /\ heap'[preds[i].pipeline] # heap[preds[i].pipeline] =>
                       (Calls("fit") /\ last'.inst = i)
      ]_vars

\* a trained predictor was retrained on other targets (the one training row
\* now has target 10, saved with target 30 before) and asked again
C12_Witness ==
    /\ last.op = "predict"
    /\ last.err = NoError
    /\ preds[1].fitted
    /\ heap[1].model.targets = <<Whole(10)>>
    /\ IsFile(fs, <<"m.joblib">>)
    /\ fs.files[<<"m.joblib">>].pipeline.model.targets = <<Whole(30)>>

\* C13: a fit, predict, save or load call that raises leaves everything as it
\* was before the call: the trained flag of every predictor, its learned
\* parameters (the predictions it returns) and the file system.
C13_FailedCallChangesNothing ==
    [][ (last'.op \in {"fit", "predict", "save", "load"} /\ last'.err # NoError) =>
            /\ preds' = preds
            /\ fs' = fs
            /\ \A i \in 1..Len(preds) :
                  ~PredictionsDiffer(preds[i], heap[preds[i].pipeline],
                                     preds'[i], heap'[preds'[i].pipeline])
      ]_vars

\* an artifact joblib.load can read: a regular file holding a pickled dict
Readable(f, path) == IsFile(f, path) /\ ~IsDir(f, path) /\ f.files[path].format = "joblib"

\* C14: whenever there is no artifact at the path, or what is there cannot be
\* read, load raises FileNotFoundError and returns no predictor.
C14_LoadRaisesNotFound ==
    [][ (Calls("load") /\ ~Readable(fs, last'.path)) =>
            /\ last'.err.exc = "FileNotFoundError"
            /\ Untouched
      ]_vars

RecognisedVersion(blob) == "version" \in DOMAIN blob /\ blob.version = 1

\* C15: a save that returns leaves at the path the pipeline together with the
\* version tag 1; and load of an artifact whose version tag is not 1, or is
\* absent, raises and returns no trained instance.
C15_VersionTagWrittenAndChecked ==
    [][ /\ (Calls("save") /\ last'.err = NoError) =>
              fs'.files[last'.path] = Artifact(heap[preds[last'.inst].pipeline], 1)
        /\ (Calls("load") /\ Readable(fs, last'.path)
                /\ ~RecognisedVersion(fs.files[last'.path])) =>
              /\ last'.err # NoError
              /\ Untouched
      ]_vars

\* the targets carry a number for every label of the feature rows
CoversLabels(X, y) ==
    /\ y.kind = "Series"
    /\ \A i \in 1..Len(X.index) :
          \E k \in 1..Len(y.index) : y.index[k] = X.index[i] /\ y.values[k].k = "num"

\* C16: when the targets carry a number for every feature-row label, fit
\* succeeds and trains feature row i against the target that has row i's
\* label, one target per row, whatever the order of the targets and whatever
\* other labels they carry.
C16_TargetsAlignedByLabel ==
    [][ (Calls("fit") /\ NonEmptyTable(last'.X) /\ HasSixColumns(last'.X)
            /\ HoldsFeatureValues(last'.X) /\ CoversLabels(last'.X, last'.y)) =>
            LET trained == heap'[preds[last'.inst].pipeline].model
            IN  /\ last'.err = NoError
                /\ trained.rows = FeatureRows(last'.X)
                /\ Len(trained.targets) = Len(last'.X.index)
                /\ \A i \in 1..Len(last'.X.index) :
                      \A k \in 1..Len(last'.y.index) :
                          last'.y.index[k] = last'.X.index[i] =>
                              trained.targets[i] = last'.y.values[k]
      ]_vars

\* rows labelled 7 and 4 trained on targets listed as 1, 7, 4: row 7 got 15 and
\* row 4 got 25, the target of label 1 went unused
C16_Witness ==
    /\ last.op = "fit"
    /\ last.err = NoError
    /\ last.X.index = <<7, 4>>
    /\ last.y.index = <<1, 7, 4>>
    /\ heap[1].model.targets = <<Whole(15), Whole(25)>>

\* C17: predict and save are read-only on the predictor: a predict or save
\* call, whether it returns or raises, leaves the trained flag and the learned
\* parameters of the predictor as they were, so that the predictor answers
\* every input after the call as it did before it.
C17_PredictAndSaveReadOnly ==
    [][ (Calls("predict") \/ Calls("save")) =>
            /\ preds' = preds
            /\ heap' = heap
            /\ \A X \in LifecycleX :
                  predict(preds'[last'.inst], heap'[preds'[last'.inst].pipeline], X)
                      = predict(preds[last'.inst], heap[preds[last'.inst].pipeline], X)
      ]_vars

\* a trained predictor saved as it is now and then asked for two rows
C17_Witness ==
    /\ last.op = "predict"
    /\ last.err = NoError
    /\ Len(last.ret.values) = 2
    /\ IsFile(fs, <<"models", "discount_predictor.pkl">>)
    /\ fs.files[<<"models", "discount_predictor.pkl">>].pipeline = heap[preds[1].pipeline]

\* C18: predictors share no mutable state.  No two instances hold the same
\* pipeline object, whether constructed or returned by load; a fit, predict or
\* save on one instance leaves the trained flag and the learned parameters of
\* every other instance (all its predictions depend on) as they were; and when
\* a fresh instance has been fitted on the data another instance was fitted
\* on, the two predict the same for every input.
C18_NoSharedState ==
    [][ /\ \A i, j \in 1..Len(preds') :
              i # j => preds'[i].pipeline # preds'[j].pipeline
        /\ last'.op \in {"fit", "predict", "save"} =>
              \A j \in 1..Len(preds) :
                  j # last'.inst =>
                      /\ preds'[j] = preds[j]
                      /\ heap'[preds[j].pipeline] = heap[preds[j].pipeline]
        /\ (Calls("fit") /\ last'.err = NoError /\ ~preds[last'.inst].fitted) =>
              \A j \in 1..Len(preds) :
                  (/\ preds[j].fitted
                   /\ heap[preds[j].pipeline].model.rows = FeatureRows(last'.X)
                   /\ heap[preds[j].pipeline].model.targets
                          = AlignTargets(last'.X, last'.y)) =>
                      \A X \in LifecycleX :
                          predict(preds'[j], heap'[preds'[j].pipeline], X)
                              = predict(preds'[last'.inst],
                                        heap'[preds'[last'.inst].pipeline], X)
      ]_vars

\* predictor 2 holds what predictor 1 saved to m.joblib; predictor 1 has been
\* retrained since and predictor 2 still answers from the saved parameters
C18_Witness ==
    /\ Len(preds) = 2
    /\ last.op = "fit"
    /\ last.inst = 1
    /\ last.err = NoError
    /\ preds[2].fitted
    /\ IsFile(fs, <<"m.joblib">>)
    /\ heap[preds[2].pipeline] = fs.files[<<"m.joblib">>].pipeline
    /\ heap[preds[1].pipeline] # heap[preds[2].pipeline]
    /\ predict(preds[2], heap[preds[2].pipeline], XD).ret.values[1].value = Whole(30)
    /\ predict(preds[1], heap[preds[1].pipeline], XD).ret.values[1].value = Whole(10)

\* a fit, or a predict on a trained predictor, with a non-empty table
CallsWithTable ==
    /\ Calls("fit") \/ (Calls("predict") /\ preds[last'.inst].fitted)
    /\ NonEmptyTable(last'.X)

\* C19 as stated: fit and predict accept a non-empty table only when its
\* columns are exactly the six required ones; with a required column missing
\* or any other column present the call fails.
C19_OnlyExactlySixAccepted ==
    [][ (CallsWithTable /\ ColumnSet(last'.X) # Range(REQUIRED_FEATURES)) =>
            last'.err # NoError
      ]_vars

\* the table cut down to the six required columns
SixColumnPart(X) ==
    Table(FilterSeq(X.columns, Range(REQUIRED_FEATURES)), X.index,
          [c \in Range(REQUIRED_FEATURES) |-> X.data[c]])

\* C19 amended: a non-empty table passes validation exactly when it holds the
\* six required columns.  With one missing the call raises the validation
\* error and changes nothing; columns beyond the six are allowed and ignored:
\* the call raises, returns and leaves behind what it would for the table cut
\* down to the six.
C19_ExtraColumnsIgnored ==
    [][ CallsWithTable =>
            LET self == preds[last'.inst]
                pipe == heap[self.pipeline]
            IN  IF ~HasSixColumns(last'.X)
                THEN /\ last'.err.exc = "ValueError"
                     /\ last'.err.text = "Missing required columns: "
                     /\ Untouched
                ELSE /\ last'.err.text # "Missing required columns: "
                     /\ Calls("fit") =>
                           LET cut == fit(self, pipe, SixColumnPart(last'.X), last'.y)
                           IN  /\ last'.err = cut.err
                               /\ preds'[last'.inst].fitted = cut.fitted
                               /\ heap'[self.pipeline] = cut.pipe
                     /\ Calls("predict") =>
                           LET cut == predict(self, pipe, SixColumnPart(last'.X))
                           IN  /\ last'.err = cut.err
                               /\ last'.ret = cut.ret
      ]_vars

\* a fit on a table with a seventh column returned, and what was learned holds
\* the six required columns only
C19_Witness ==
    /\ last.op = "fit"
    /\ last.err = NoError
    /\ "extra" \in ColumnSet(last.X)
    /\ Len(last.X.index) = 2
    /\ preds[1].fitted
    /\ heap[1].model.rows = FeatureRows(SixColumnPart(last.X))
    /\ \A i \in 1..2 : DOMAIN heap[1].model.rows[i] = Range(REQUIRED_FEATURES)

\* C20: fit on a non-empty table that lacks required columns, called directly
\* or through train_model, raises the ValueError of the column transformer,
\* whose message holds "column is not a column of the dataframe".
C20_MissingColumnsColumnTransformerError ==
    [][ (Calls("fit") /\ NonEmptyTable(last'.X) /\ ~HasSixColumns(last'.X)) =>
            /\ last'.err = ColumnNotFound
            /\ train_model(preds[last'.inst], heap[preds[last'.inst].pipeline],
                           [features |-> last'.X, labels |-> last'.y]).err = ColumnNotFound
      ]_vars

C28_NormalizerOutputPassesValidation ==
    (bf.called /\ NonEmptyTable(df)) =>
        /\ bf.outcome = "ok"
        /\ _validate_X(bf.out) = NoError
        /\ ColumnSet(bf.out) = Range(REQUIRED_FEATURES)

\* an input with none of the recognised columns yields a table the predictor's
\* validation lets through
C28_Witness ==
    /\ BfReturned
    /\ df.columns = <<"spend">>
    /\ Len(df.index) = 1
    /\ _validate_X(bf.out) = NoError
    /\ UnknownColumn(bf.out.data["route_id"])

\* C29: build_features is idempotent: applied to its own output it returns a
\* table with the same columns, index and values.
C29_BuildFeaturesIdempotent ==
    (bf.called /\ NonEmptyTable(df)) =>
        /\ bf.outcome = "ok"
        /\ build_features(bf.out).outcome = "ok"
        /\ build_features(bf.out).out = bf.out

\* the first pass converted miles and divided a spend by zero trips; the second
\* pass leaves 3460.081 km and the infinite average as they are
C29_Witness ==
    /\ BfReturned
    /\ "distance" \in ColumnSet(df)
    /\ "distance_km" \notin ColumnSet(df)
    /\ bf.out.data["distance_km"][1] = Num(3460081, 1000)
    /\ bf.out.data["avg_spend"][1] = PosInf
    /\ build_features(bf.out).out.data["distance_km"][1] = Num(3460081, 1000)
    /\ build_features(bf.out).out.data["avg_spend"][1] = PosInf

(***************************************************************************)
(* Properties of the Database object (checked under SpecDatabase).         *)
(***************************************************************************)
\* C23: fetch_data always returns a list and never raises: the fetched rows
\* when the query succeeds and [] when an error occurs, after any sequence of
\* connect, close, execute and fetch_data calls.
C23_FetchDataReturnsList ==
    db.call.op = "fetch_data" =>
        /\ db.call.exc = ""
        /\ db.call.ret.kind = "list"

\* C24: execute returns True exactly when the statement ran and was committed
\* and False otherwise (not connected, or the statement failed and was rolled
\* back); the stored data changes by exactly the statements that returned
\* True, nothing is left uncommitted, and execute never raises.
C24_ExecuteTrueIffCommitted ==
    [][ (db'.call.op = "execute" /\ db' # db) =>
            LET r == Run(db.view, db'.call.q)
                committed == db.connection /\ r.exc = ""
            IN  /\ db'.call.exc = ""
                /\ db'.call.ret = Bool(committed)
                /\ db'.file = IF committed THEN r.store ELSE db.file
                /\ db'.view = db'.file
                /\ db'.connection = db.connection ]_vars

\* a statement that failed after others were committed: False is returned and
\* the committed rows are still there
C24_Witness ==
    /\ db.call.op = "execute"
    /\ db.call.q.nulls = {"name"}
    /\ db.call.ret = Bool(FALSE)
    /\ db.connection
    /\ Cardinality(db.file.rows["passengers"]) = 2
    /\ db.file.rows["discounts"] # {}

(***************************************************************************)
(* Properties of the entry points (checked under SpecTraining).            *)
(***************************************************************************)
\* C22: train.main and evaluate.main never mutate the store: every statement
\* they send is a read, so the passenger, route and discount rows (and the
\* Database object of any other user) are the same after the run as before,
\* on the success path and on the 'no data' failure path.
C22_EntryPointsOnlyRead ==
    [][ (TrainMain \/ EvaluateMain) => db' = db ]_vars

\* train.main has fitted on joined rows and saved the model; the rows are there
C22_Witness ==
    /\ last.op = "train.main"
    /\ last.err = NoError
    /\ Len(last.X.index) >= 2
    /\ IsFile(fs, ModelPath)
    /\ Cardinality(db.file.rows["discounts"]) >= 2

\* C27: after load_sample_data has populated an empty database, the training
\* query of train.main returns at least one row, so main fits and saves a
\* model instead of raising 'No training data found'.
C27_SampleDataTrains ==
    [][ (TrainMain /\ db.file = load_sample_data(EmptyStore)) =>
            /\ last'.err = NoError
            /\ Len(last'.X.index) >= 1
            /\ IsFile(fs', ModelPath) ]_vars

(***************************************************************************)
(* Properties of the synthetic-data loader (checked under SpecSynth).      *)
(***************************************************************************)
\* C26: after the synthetic-data loader has run, every discount row references
\* a passenger id and a route id that exist in the passengers and routes
\* tables: on a fresh database, on a second run that first clears the tables,
\* and with --no-clear on a populated database.
C26_DiscountsReferenceExistingRows ==
    db.call.op = "run_synth" =>
        \A d \in db.file.rows["discounts"] :
            /\ \E p \in db.file.rows["passengers"] : p.id = d.passenger_id
            /\ \E r \in db.file.rows["routes"] : r.id = d.route_id

(***************************************************************************)
(* Properties of the MCP server (checked under SpecMcp).                   *)
(***************************************************************************)
\* the path lies in data/ or synth_models/ or below
Inside(p) == \E root \in allowed_prefixes : StartsWith(p, root)

\* C25: the file tools are contained: preview_table_head, synth_stats and
\* export_archive read a file or directory only if its resolved path lies
\* inside data/ or synth_models/; every other path, one reached through ".."
\* or a sibling directory whose name starts with "data" included, is rejected
\* with 403 before anything is read.
C25_FileToolsContained ==
    srv.call.tool \in {"preview_table_head", "synth_stats", "export_archive"} =>
        /\ \A p \in srv.call.read : Inside(p)
        /\ (~Inside(resolve(srv.call.arg[1]))) =>
               (srv.call.status = 403 /\ srv.call.read = {})

\* C30: no tools/call request makes the server create or overwrite a file
\* outside data/ and synth_models/ (the generated-data file, the zip archive,
\* the log file), and a failed tool call writes no log file.
C30_WritesContained ==
    srv.call.tool # "" =>
        /\ \A p \in srv.call.wrote \cup srv.call.log : Inside(p)
        /\ srv.call.status # 200 => srv.call.log = {}
====
